---- MODULE Spec2Model ----
(***************************************************************************)
(* Supertab Connect SDK: license-token verification (license.ts), the      *)
(* platform key-set cache (jwks.ts) and the request orchestrator           *)
(* (SupertabConnect.handleRequest).                                        *)
(*                                                                         *)
(* Strings are sequences of one-character strings, so that trimming,       *)
(* prefix tests and substring tests are computed rather than assumed.      *)
(* JSON claim values are records [t, s, l]: t is the JSON type, s the      *)
(* characters of a string, l the entries of a list.                        *)
(***************************************************************************)
EXTENDS Integers, Sequences, FiniteSets, TLC

\* ------------------------------------------------------------------ bounds

\* number of clock advances explored
MaxTicks == 2
\* wall clock (ms) of the initial state
StartNow == 120000

\* ------------------------------------------------------------ JSON values

Undef == [t |-> "undef", s |-> <<>>, l |-> <<>>]
\* a non-zero JSON number (truthy, not a string)
Num == [t |-> "num", s |-> <<>>, l |-> <<>>]
Str(chars) == [t |-> "str", s |-> chars, l |-> <<>>]
List(entries) == [t |-> "list", s |-> <<>>, l |-> entries]

\* JavaScript truthiness of a claim value
Truthy(v) ==
  CASE v.t = "undef" -> FALSE
    [] v.t = "str" -> v.s # <<>>
    [] OTHER -> TRUE

\* ---------------------------------------------------------------- strings

RECURSIVE TrimStart(_)
TrimStart(str) ==
  IF str # <<>> /\ Head(str) = " " THEN TrimStart(Tail(str)) ELSE str

RECURSIVE TrimEnd(_)
TrimEnd(str) ==
  IF str # <<>> /\ str[Len(str)] = " "
  THEN TrimEnd(SubSeq(str, 1, Len(str) - 1))
  ELSE str

\* String.prototype.trim
trim(str) == TrimEnd(TrimStart(str))

\* replace(/\/+$/, "")
RECURSIVE DropTrailingSlashes(_)
DropTrailingSlashes(str) ==
  IF str # <<>> /\ str[Len(str)] = "/"
  THEN DropTrailingSlashes(SubSeq(str, 1, Len(str) - 1))
  ELSE str

stripTrailingSlash(value) == DropTrailingSlashes(trim(value))

startsWith(str, prefix) ==
  /\ Len(prefix) <= Len(str)
  /\ SubSeq(str, 1, Len(prefix)) = prefix

includes(str, needle) ==
  \E i \in 1..(Len(str) - Len(needle) + 1) :
    SubSeq(str, i, i + Len(needle) - 1) = needle

\* ------------------------------------------------------- failure reasons

MISSING_TOKEN == "missing_license_token"
INVALID_HEADER == "invalid_license_header"
INVALID_ALG == "invalid_license_algorithm"
INVALID_PAYLOAD == "invalid_license_payload"
INVALID_ISSUER == "invalid_license_issuer"
SIGNATURE_VERIFICATION_FAILED == "license_signature_verification_failed"
EXPIRED == "license_token_expired"
INVALID_AUDIENCE == "invalid_license_audience"
SERVER_ERROR == "server_error"

LicenseTokenInvalidReason ==
  { MISSING_TOKEN, INVALID_HEADER, INVALID_ALG, INVALID_PAYLOAD, INVALID_ISSUER,
    SIGNATURE_VERIFICATION_FAILED, EXPIRED, INVALID_AUDIENCE, SERVER_ERROR }

\* ------------------------------------------------------------ key sets

K1 == <<"k", "1">>
K2 == <<"k", "2">>
\* a key identifier that happens to contain the letters e, x, p
KExp == <<"e", "x", "p", "1">>

Key(kid, mat) == [kid |-> kid, mat |-> mat]

\* key-set documents the key-distribution endpoint can serve
DocOld == [hasKeys |-> TRUE, keys |-> << Key(K1, "genuine") >>]
DocNew == [hasKeys |-> TRUE, keys |-> << Key(K1, "genuine"), Key(K2, "genuine") >>]
\* a JSON document without a keys member
DocNoKeys == [hasKeys |-> FALSE, keys |-> <<>>]
Docs == { DocOld, DocNew, DocNoKeys }

\* what a GET of the key-distribution endpoint yields: a 2xx JSON document, a
\* non-2xx status, or a network error (fetch rejects)
Endpoints ==
  [status : {"ok"}, doc : Docs]
    \cup [status : {"non2xx", "neterr"}, doc : {DocNoKeys}]

NoDoc == DocNoKeys
NoResp == [status |-> "none", doc |-> NoDoc]

\* ------------------------------------------------------------ the cache

JWKS_CACHE_TTL_MS == 48 * 60 * 60 * 1000

\* jwksCache has the single key "platform_jwks"; has = FALSE is the empty map
EmptyCache == [has |-> FALSE, data |-> NoDoc, cachedAt |-> 0]

\* mutant: an entry exactly TTL old still counts as fresh
CacheFresh_Inclusive(cache, nowMs) ==
  cache.has /\ (nowMs - cache.cachedAt) <= JWKS_CACHE_TTL_MS

\* the freshness test of fetchAndCacheJwks
CacheFresh(cache, nowMs) ==
  cache.has /\ (nowMs - cache.cachedAt) < JWKS_CACHE_TTL_MS

\* mutant: the entry is stored with the first key of the document only
CacheSet_FirstKeyOnly(cache, doc, nowMs) ==
  [has |-> TRUE,
   data |-> [doc EXCEPT !.keys = IF doc.keys = <<>> THEN <<>> ELSE << Head(doc.keys) >>],
   cachedAt |-> nowMs]

\* jwksCache.set(cacheKey, { data, cachedAt: Date.now() })
CacheSet(cache, doc, nowMs) == [has |-> TRUE, data |-> doc, cachedAt |-> nowMs]

\* mutant: a failed fetch leaves an empty key set in the cache
cacheAfterFetch_StoresFailure(cache, response, nowMs) ==
  IF response.status = "ok" THEN CacheSet(cache, response.doc, nowMs)
  ELSE CacheSet(cache, NoDoc, nowMs)

\* the cache after fetchAndCacheJwks has dealt with the response: an entry
\* is set for a 2xx JSON body only; the throw for anything else comes first
cacheAfterFetch(cache, response, nowMs) ==
  IF response.status = "ok" THEN CacheSet(cache, response.doc, nowMs) ELSE cache

\* --------------------------------------------------------------- tokens

ES256 == "ES256"

\* the base URL handed to verifyLicenseToken (SupertabConnect.baseUrl)
BaseUrl == <<"s">>
\* request URLs
UrlArticle == <<"u", "/", "a">>
UrlOther == <<"o", "/", "a">>
Urls == { UrlArticle, UrlOther }

\* exp claims (epoch seconds): absent, or a number
NoExp == [t |-> "undef", v |-> 0]
Exp(sec) == [t |-> "num", v |-> sec]

\* A token is described by what the decoders and the verifier read from it:
\*   empty  the token string is ""
\*   hdr    whether decodeProtectedHeader succeeds         alg, kid  header members
\*   pl     whether decodeJwt succeeds                     iss, aud, lic, exp  claims
\*   sig    "genuine": signed by the private key behind its kid; else "forged"
Token(hdr, alg, kid, pl, iss, aud, lic, exp, sig) ==
  [empty |-> FALSE, hdr |-> hdr, alg |-> alg, kid |-> kid, pl |-> pl,
   iss |-> iss, aud |-> aud, lic |-> lic, exp |-> exp, sig |-> sig]

GoodToken ==
  Token("ok", ES256, K1, "ok", Str(<<"s">>), Str(<<"u">>), Str(<<"L">>),
        Exp(1000000000), "genuine")
EmptyToken == [GoodToken EXCEPT !.empty = TRUE]

HdrValues == {"ok", "bad"}
AlgValues == {ES256, "RS256", "undef"}
KidValues == {K1, K2, KExp}
PlValues == {"ok", "bad"}
IssValues == {Str(<<"s">>), Str(<<"s", "/">>), Str(<<"e">>), Undef, Num}
AudValues ==
  {Str(<<"u">>), Str(<<"o">>), Undef, Num, List(<<Num, Str(<<"u", "/">>)>>)}
LicValues == {Str(<<"L">>), Undef}
ExpValues == {Exp(1000000000), Exp(60), NoExp}
SigValues == {"genuine", "forged"}

\* number of members in which a token differs from GoodToken
Distance(t) ==
  Cardinality({f \in {"hdr", "alg", "kid", "pl", "iss", "aud", "lic", "exp", "sig"} :
                 t[f] # GoodToken[f]})

AllTokens ==
  [empty : {FALSE}, hdr : HdrValues, alg : AlgValues, kid : KidValues, pl : PlValues,
   iss : IssValues, aud : AudValues, lic : LicValues, exp : ExpValues, sig : SigValues]

\* the tokens presented to the verifier: the empty string and every token
\* that differs from a valid one in at most two members
Tokens == {EmptyToken} \cup {t \in AllTokens : Distance(t) <= 2}

\* ------------------------------------------------- verification results

NoReason == "none"
\* error: the member `error` of the result object, a JSON value; no return
\* statement of verifyLicenseToken sets it
NoResult ==
  [valid |-> FALSE, reason |-> "pending", licenseId |-> Undef, hasPayload |-> FALSE,
   error |-> Undef]
Invalid(reason, licenseId) ==
  [valid |-> FALSE, reason |-> reason, licenseId |-> licenseId, hasPayload |-> FALSE,
   error |-> Undef]
Valid(licenseId) ==
  [valid |-> TRUE, reason |-> NoReason, licenseId |-> licenseId, hasPayload |-> TRUE,
   error |-> Undef]

\* ------------------------------------- verifyLicenseToken, lines 39 - 124

\* the audience test of lines 99 - 110
audienceValues(aud) ==
  IF aud.t = "list" THEN SelectSeq(aud.l, LAMBDA entry : entry.t = "str")
  ELSE IF aud.t = "str" THEN << aud >>
  ELSE <<>>

\* mutant: an audience that normalizes to the empty string is not skipped
matchesRequestUrl_EmptyMatches(aud, requestUrl) ==
  LET values == audienceValues(aud)
      requestUrlNormalized == stripTrailingSlash(requestUrl)
  IN \E i \in 1..Len(values) :
       startsWith(requestUrlNormalized, stripTrailingSlash(values[i].s))

matchesRequestUrl(aud, requestUrl) ==
  LET values == audienceValues(aud)
      requestUrlNormalized == stripTrailingSlash(requestUrl)
  IN \E i \in 1..Len(values) :
       LET normalizedAudience == stripTrailingSlash(values[i].s)
       IN /\ normalizedAudience # <<>>
          /\ startsWith(requestUrlNormalized, normalizedAudience)

\* the issuer test of lines 84 - 88; issuer is a string here
issuerAccepted(issuer, supertabBaseUrl) ==
  LET normalizedIssuer == IF Truthy(issuer) THEN stripTrailingSlash(issuer.s) ELSE <<>>
      normalizedBaseUrl == stripTrailingSlash(supertabBaseUrl)
  IN normalizedIssuer # <<>> /\ startsWith(normalizedIssuer, normalizedBaseUrl)

\* stripTrailingSlash(issuer) calls issuer.trim(): a TypeError when the iss
\* claim is truthy and not a string; nothing catches it
issuerThrows(issuer) == Truthy(issuer) /\ issuer.t # "str"

\* The synchronous checks, in the order of the code.  kind is "return" (with
\* the result), "throw" (the call rejects) or "pass" (go on to the key set).
Outcome(kind, result) == [kind |-> kind, result |-> result]

\* mutant: the algorithm is looked at only after the payload was decoded
PreChecks_AlgAfterPayload(token, requestUrl, supertabBaseUrl) ==
  IF token.empty THEN Outcome("return", Invalid(MISSING_TOKEN, Undef))
  ELSE IF token.hdr # "ok" THEN Outcome("return", Invalid(INVALID_HEADER, Undef))
  ELSE IF token.pl # "ok" THEN Outcome("return", Invalid(INVALID_PAYLOAD, Undef))
  ELSE IF token.alg # ES256 THEN Outcome("return", Invalid(INVALID_ALG, Undef))
  ELSE IF issuerThrows(token.iss) THEN Outcome("throw", NoResult)
  ELSE IF ~issuerAccepted(token.iss, supertabBaseUrl)
    THEN Outcome("return", Invalid(INVALID_ISSUER, token.lic))
  ELSE IF ~matchesRequestUrl(token.aud, requestUrl)
    THEN Outcome("return", Invalid(INVALID_AUDIENCE, token.lic))
  ELSE Outcome("pass", NoResult)

PreChecks(token, requestUrl, supertabBaseUrl) ==
  IF token.empty THEN Outcome("return", Invalid(MISSING_TOKEN, Undef))
  ELSE IF token.hdr # "ok" THEN Outcome("return", Invalid(INVALID_HEADER, Undef))
  ELSE IF token.alg # ES256 THEN Outcome("return", Invalid(INVALID_ALG, Undef))
  ELSE IF token.pl # "ok" THEN Outcome("return", Invalid(INVALID_PAYLOAD, Undef))
  ELSE IF issuerThrows(token.iss) THEN Outcome("throw", NoResult)
  ELSE IF ~issuerAccepted(token.iss, supertabBaseUrl)
    THEN Outcome("return", Invalid(INVALID_ISSUER, token.lic))
  ELSE IF ~matchesRequestUrl(token.aud, requestUrl)
    THEN Outcome("return", Invalid(INVALID_AUDIENCE, token.lic))
  ELSE Outcome("pass", NoResult)

\* ------------------------------------------- jwtVerify and its errors

MsgNoKeyPrefix == <<"N", "o", " ", "m", "a", "t", "c", "h", "i", "n", "g", " ", "p", "l", "a", "t", "f", "o", "r", "m", " ", "k", "e", "y", " ", "f", "o", "u", "n", "d", ":", " ">>
MsgExpired == <<"\"", "e", "x", "p", "\"", " ", "c", "l", "a", "i", "m", " ", "t", "i", "m", "e", "s", "t", "a", "m", "p", " ", "c", "h", "e", "c", "k", " ", "f", "a", "i", "l", "e", "d">>
MsgSignature == <<"s", "i", "g", "n", "a", "t", "u", "r", "e", " ", "v", "e", "r", "i", "f", "i", "c", "a", "t", "i", "o", "n", " ", "f", "a", "i", "l", "e", "d">>
MsgNoKeys == <<"C", "a", "n", "n", "o", "t", " ", "r", "e", "a", "d", " ", "p", "r", "o", "p", "e", "r", "t", "i", "e", "s", " ", "o", "f", " ", "u", "n", "d", "e", "f", "i", "n", "e", "d", " ", "(", "r", "e", "a", "d", "i", "n", "g", " ", "'", "f", "i", "n", "d", "'", ")">>
ExpNeedle == <<"e", "x", "p">>

NoError == <<>>

\* jwks.keys.find((key) => key.kid === jwtHeader.kid): the matching keys, in order
findKey(doc, kid) == SelectSeq(doc.keys, LAMBDA key : key.kid = kid)

\* clockTolerance: "1m", in seconds
ClockToleranceSec == 60

\* The message of the error thrown inside the try block of lines 140 - 153,
\* or NoError when jwtVerify resolves.  jose calls getKey, verifies the
\* signature, then validates the claims: iss equals the issuer option (the
\* token's own iss, so it always does) and exp against the clock.
jwtVerifyError(token, doc, nowMs) ==
  IF ~doc.hasKeys THEN MsgNoKeys
  ELSE IF findKey(doc, token.kid) = <<>> THEN MsgNoKeyPrefix \o token.kid
  ELSE IF ~(token.sig = "genuine" /\ findKey(doc, token.kid)[1].mat = "genuine")
    THEN MsgSignature
  ELSE IF token.exp.t = "num" /\ token.exp.v <= (nowMs \div 1000) - ClockToleranceSec
    THEN MsgExpired
  ELSE NoError

\* mutant: the key-lookup miss is reported under a reason of its own
classify_KeyNotFound(message, licenseId) ==
  IF startsWith(message, MsgNoKeyPrefix) THEN Invalid("key_not_found", licenseId)
  ELSE IF includes(message, ExpNeedle) THEN Invalid(EXPIRED, licenseId)
  ELSE Invalid(SIGNATURE_VERIFICATION_FAILED, licenseId)

\* mutant: every failure of jwtVerify is reported as a signature failure
classify_AlwaysSignature(message, licenseId) ==
  Invalid(SIGNATURE_VERIFICATION_FAILED, licenseId)

\* the classification of lines 160 - 178
classify(message, licenseId) ==
  IF includes(message, ExpNeedle) THEN Invalid(EXPIRED, licenseId)
  ELSE Invalid(SIGNATURE_VERIFICATION_FAILED, licenseId)

\* lines 140 - 178 as a whole
verifyWithKeys(token, doc, nowMs) ==
  LET message == jwtVerifyError(token, doc, nowMs)
  IN IF message = NoError THEN Valid(token.lic) ELSE classify(message, token.lic)

\* mutant: the fetch shares the try block of jwtVerify, so that its failure
\* is classified as a signature failure
fetchFailed_AsSignature(licenseId) == Invalid(SIGNATURE_VERIFICATION_FAILED, licenseId)

\* mutant: the result of a failed key-set retrieval carries no license id
fetchFailed_NoLicense(licenseId) == Invalid(SERVER_ERROR, Undef)

\* the catch block of lines 129 - 138
fetchFailed(licenseId) == Invalid(SERVER_ERROR, licenseId)

\* ------------------------------------------------------ handler results

ALLOW == "allow"
BLOCK == "block"

\* one response header; error and desc are the parameters of the License
\* challenge, origin the scheme and host the Link header points at
Header(name, text, error, desc, origin) ==
  [name |-> name, text |-> text, error |-> error, desc |-> desc, origin |-> origin]

\* new URL(requestUrl): protocol and host, the characters before the first "/"
RECURSIVE Origin(_)
Origin(requestUrl) ==
  IF requestUrl = <<>> \/ Head(requestUrl) = "/" THEN <<>>
  ELSE << Head(requestUrl) >> \o Origin(Tail(requestUrl))

\* mutant: the license link is put under the request URL itself
LinkHeader_RequestUrl(requestUrl) ==
  Header("Link", "/license.xml; rel=license; type=application/rsl+xml", "", "", requestUrl)

\* `<${licenseLink}>; rel="license"; type="application/rsl+xml"` with
\* licenseLink = generateLicenseLink({ requestUrl })
LinkHeader(requestUrl) ==
  Header("Link", "/license.xml; rel=license; type=application/rsl+xml", "", "",
         Origin(requestUrl))

NoHandlerResult ==
  [action |-> "none", status |-> 0, rslError |-> "", errorDescription |-> "", headers |-> {},
   challenge |-> <<>>]

\* { action: HandlerAction.ALLOW }
AllowResult ==
  [action |-> ALLOW, status |-> 0, rslError |-> "", errorDescription |-> "", headers |-> {},
   challenge |-> <<>>]

\* mutant: the signal lacks the X-RSL-Reason header
buildSignalResult_NoReason(requestUrl) ==
  [action |-> ALLOW, status |-> 0, rslError |-> "", errorDescription |-> "",
   headers |-> { LinkHeader(requestUrl),
                 Header("X-RSL-Status", "token_required", "", "", <<>>) },
   challenge |-> <<>>]

buildSignalResult(requestUrl) ==
  [action |-> ALLOW, status |-> 0, rslError |-> "", errorDescription |-> "",
   headers |-> { LinkHeader(requestUrl),
                 Header("X-RSL-Status", "token_required", "", "", <<>>),
                 Header("X-RSL-Reason", "missing", "", "", <<>>) },
   challenge |-> <<>>]

\* the switch of buildBlockResult: status, error code, description
Mapping(status, rslError, errorDescription) ==
  [status |-> status, rslError |-> rslError, errorDescription |-> errorDescription]

\* mutant: a wrong audience is answered like any other bad token
blockMapping_Audience401(reason) ==
  CASE reason \in {MISSING_TOKEN, INVALID_ALG} ->
         Mapping(401, "invalid_request", "Authorization header missing or malformed")
    [] reason = SERVER_ERROR ->
         Mapping(503, "server_error", "The server encountered an error validating the license")
    [] OTHER ->
         Mapping(401, "invalid_token", "License token missing, expired, revoked, or malformed")

blockMapping(reason) ==
  CASE reason = MISSING_TOKEN ->
         Mapping(401, "invalid_request", "Authorization header missing or malformed")
    [] reason = INVALID_ALG ->
         Mapping(401, "invalid_request", "Unsupported token algorithm")
    [] reason = EXPIRED ->
         Mapping(401, "invalid_token", "The license token has expired")
    [] reason = SIGNATURE_VERIFICATION_FAILED ->
         Mapping(401, "invalid_token", "The license token signature is invalid")
    [] reason = INVALID_HEADER ->
         Mapping(401, "invalid_token", "The license token header is malformed")
    [] reason = INVALID_PAYLOAD ->
         Mapping(401, "invalid_token", "The license token payload is malformed")
    [] reason = INVALID_ISSUER ->
         Mapping(401, "invalid_token", "The license token issuer is not recognized")
    [] reason = INVALID_AUDIENCE ->
         Mapping(403, "insufficient_scope", "The license does not grant access to this resource")
    [] reason = SERVER_ERROR ->
         Mapping(503, "server_error", "The server encountered an error validating the license")
    [] OTHER ->
         Mapping(401, "invalid_token", "License token missing, expired, revoked, or malformed")

\* the characters of the string literals of buildBlockResult
Chars(str) ==
  CASE str = "License error=\"" ->
         << "L", "i", "c", "e", "n", "s", "e", " ", "e", "r", "r", "o", "r", "=",
            "\"" >>
    [] str = "\", error_description=\"" ->
         << "\"", ",", " ", "e", "r", "r", "o", "r", "_", "d", "e", "s", "c", "r",
            "i", "p", "t", "i", "o", "n", "=", "\"" >>
    [] str = "invalid_request" ->
         << "i", "n", "v", "a", "l", "i", "d", "_", "r", "e", "q", "u", "e", "s",
            "t" >>
    [] str = "invalid_token" ->
         << "i", "n", "v", "a", "l", "i", "d", "_", "t", "o", "k", "e", "n" >>
    [] str = "insufficient_scope" ->
         << "i", "n", "s", "u", "f", "f", "i", "c", "i", "e", "n", "t", "_", "s",
            "c", "o", "p", "e" >>
    [] str = "server_error" ->
         << "s", "e", "r", "v", "e", "r", "_", "e", "r", "r", "o", "r" >>
    [] str = "Authorization header missing or malformed" ->
         << "A", "u", "t", "h", "o", "r", "i", "z", "a", "t", "i", "o", "n", " ",
            "h", "e", "a", "d", "e", "r", " ", "m", "i", "s", "s", "i", "n", "g",
            " ", "o", "r", " ", "m", "a", "l", "f", "o", "r", "m", "e", "d" >>
    [] str = "Unsupported token algorithm" ->
         << "U", "n", "s", "u", "p", "p", "o", "r", "t", "e", "d", " ", "t", "o",
            "k", "e", "n", " ", "a", "l", "g", "o", "r", "i", "t", "h", "m" >>
    [] str = "The license token has expired" ->
         << "T", "h", "e", " ", "l", "i", "c", "e", "n", "s", "e", " ", "t", "o",
            "k", "e", "n", " ", "h", "a", "s", " ", "e", "x", "p", "i", "r", "e",
            "d" >>
    [] str = "The license token signature is invalid" ->
         << "T", "h", "e", " ", "l", "i", "c", "e", "n", "s", "e", " ", "t", "o",
            "k", "e", "n", " ", "s", "i", "g", "n", "a", "t", "u", "r", "e", " ",
            "i", "s", " ", "i", "n", "v", "a", "l", "i", "d" >>
    [] str = "The license token header is malformed" ->
         << "T", "h", "e", " ", "l", "i", "c", "e", "n", "s", "e", " ", "t", "o",
            "k", "e", "n", " ", "h", "e", "a", "d", "e", "r", " ", "i", "s", " ",
            "m", "a", "l", "f", "o", "r", "m", "e", "d" >>
    [] str = "The license token payload is malformed" ->
         << "T", "h", "e", " ", "l", "i", "c", "e", "n", "s", "e", " ", "t", "o",
            "k", "e", "n", " ", "p", "a", "y", "l", "o", "a", "d", " ", "i", "s",
            " ", "m", "a", "l", "f", "o", "r", "m", "e", "d" >>
    [] str = "The license token issuer is not recognized" ->
         << "T", "h", "e", " ", "l", "i", "c", "e", "n", "s", "e", " ", "t", "o",
            "k", "e", "n", " ", "i", "s", "s", "u", "e", "r", " ", "i", "s", " ",
            "n", "o", "t", " ", "r", "e", "c", "o", "g", "n", "i", "z", "e", "d" >>
    [] str = "The license does not grant access to this resource" ->
         << "T", "h", "e", " ", "l", "i", "c", "e", "n", "s", "e", " ", "d", "o",
            "e", "s", " ", "n", "o", "t", " ", "g", "r", "a", "n", "t", " ", "a",
            "c", "c", "e", "s", "s", " ", "t", "o", " ", "t", "h", "i", "s", " ",
            "r", "e", "s", "o", "u", "r", "c", "e" >>
    [] str = "The server encountered an error validating the license" ->
         << "T", "h", "e", " ", "s", "e", "r", "v", "e", "r", " ", "e", "n", "c",
            "o", "u", "n", "t", "e", "r", "e", "d", " ", "a", "n", " ", "e", "r",
            "r", "o", "r", " ", "v", "a", "l", "i", "d", "a", "t", "i", "n", "g",
            " ", "t", "h", "e", " ", "l", "i", "c", "e", "n", "s", "e" >>
    [] str = "License token missing, expired, revoked, or malformed" ->
         << "L", "i", "c", "e", "n", "s", "e", " ", "t", "o", "k", "e", "n", " ",
            "m", "i", "s", "s", "i", "n", "g", ",", " ", "e", "x", "p", "i", "r",
            "e", "d", ",", " ", "r", "e", "v", "o", "k", "e", "d", ",", " ", "o",
            "r", " ", "m", "a", "l", "f", "o", "r", "m", "e", "d" >>

CR == "\r"
LF == "\n"

\* mutant: the caller's description is put into the challenge as it is
wwwAuthenticate_RawError(rslError, errorDescription, error) ==
  Chars("License error=\"") \o Chars(rslError) \o Chars("\", error_description=\"")
    \o (IF error.t = "str" THEN error.s ELSE Chars(errorDescription)) \o << "\"" >>

\* `License error="${rslError}", error_description="${errorDescription}"`,
\* character by character; errorDescription is the literal of the switch,
\* the member `error` of the argument is not read
wwwAuthenticate(rslError, errorDescription, error) ==
  Chars("License error=\"") \o Chars(rslError) \o Chars("\", error_description=\"")
    \o Chars(errorDescription) \o << "\"" >>

\* mutant: the block response carries no WWW-Authenticate challenge
buildBlockResult_NoChallenge(reason, error, requestUrl) ==
  LET m == blockMapping(reason)
  IN [action |-> BLOCK, status |-> m.status, rslError |-> m.rslError,
      errorDescription |-> m.errorDescription,
      headers |-> { Header("Content-Type", "text/plain; charset=UTF-8", "", "", <<>>),
                    LinkHeader(requestUrl) },
      challenge |-> <<>>]

\* buildBlockResult({ reason, error, requestUrl }); challenge is the value of
\* the WWW-Authenticate header, character by character
buildBlockResult(reason, error, requestUrl) ==
  LET m == blockMapping(reason)
  IN [action |-> BLOCK, status |-> m.status, rslError |-> m.rslError,
      errorDescription |-> m.errorDescription,
      headers |-> { Header("Content-Type", "text/plain; charset=UTF-8", "", "", <<>>),
                    Header("WWW-Authenticate", "License", m.rslError, m.errorDescription, <<>>),
                    LinkHeader(requestUrl) },
      challenge |-> wwwAuthenticate(m.rslError, m.errorDescription, error)]

\* ------------------------------------------------------------- the state

\* the slots in which calls run; a slot is reused after its call has ended
Calls == {1, 2}

VARIABLES
  now,        \* Date.now(), in ms
  ticks,      \* how often the clock has advanced
  endpoint,   \* what the key-distribution endpoint currently answers
  baseUrl,    \* SupertabConnect.baseUrl, passed on as supertabBaseUrl
  jwksCache,  \* the module-level cache of jwks.ts
  pc,         \* pc[c]: where call c stands
  tok,        \* tok[c]: licenseToken
  url,        \* url[c]: requestUrl
  resp,       \* resp[c]: the response to the call's pending fetch
  jwks,       \* jwks[c]: the key set the call verifies against
  res,        \* res[c]: the verification result
  nret,       \* nret[c]: calls of fetchPlatformJwks made by call c
  nnet,       \* nnet[c]: network fetches issued by call c
  ninv,       \* ninv[c]: clearJwksCache calls made by call c
  req,        \* req[c]: the request and the instance configuration handled in c
  botAsked,   \* botAsked[c]: whether the bot detector was called
  event,      \* event[c]: the analytics event issued for the request
  hres,       \* hres[c]: the HandlerResult
  dispatch,   \* dispatch[c]: the analytics call of the request and how it was dispatched
  client,     \* client[c]: what the CDN adapter hands back for the request
  instance,   \* SupertabConnect._instance
  made,       \* the last constructor call and how it ended
  out,        \* out[c]: the RSLVerificationResult of the static verify
  removed,    \* what the last clearJwksCache took out, until the next key-set retrieval
  content,    \* the last call of findBestMatchingContent: arguments and result
  cachedFrom, \* the base URL whose endpoint served the cached key set, <<>> if none
  served      \* per call: when the response of its pending fetch was served, and the
              \* call whose fetch had been served before it

vars ==
  << now, ticks, endpoint, baseUrl, jwksCache, pc, tok, url, resp, jwks, res, nret, nnet, ninv,
     req, botAsked, event, hres, dispatch, client, instance, made, out, removed, content, cachedFrom,
     served >>
env == << now, ticks, endpoint, baseUrl >>
locals == << tok, url, resp, jwks, res, nret, nnet, ninv >>
handler == << req, botAsked, event, hres, dispatch, client >>
sdk == << instance, made, out >>

\* ---------------------------------------------------------------- requests

DISABLED == "disabled"
SOFT == "soft"
STRICT == "strict"
EnforcementMode == { DISABLED, SOFT, STRICT }

\* config.enforcement: a mode, or not given
Unconfigured == "unset"
EnforcementConfigs == EnforcementMode \cup { Unconfigured }

\* this.enforcement = config.enforcement ?? EnforcementMode.SOFT
enforcement(config) == IF config = Unconfigured THEN SOFT ELSE config

\* the configured botDetector: none, or one that answers true / false
BotDetectors == { "none", "bot", "human" }

LicensePrefix == <<"L", "i", "c", "e", "n", "s", "e", " ">>
BearerPrefix == <<"B", "e", "a", "r", "e", "r", " ">>

\* The Authorization header is absent, or the characters `scheme` followed by
\* the characters of `cred` (EmptyToken: nothing follows).
NoAuth == [has |-> FALSE, scheme |-> <<>>, cred |-> EmptyToken]
Auth(scheme, cred) == [has |-> TRUE, scheme |-> scheme, cred |-> cred]

\* the tokens sent in requests: the valid one and its one-member variations
RequestTokens == {t \in Tokens : ~t.empty /\ Distance(t) <= 1}

AuthHeaders ==
  {NoAuth}
    \cup {Auth(scheme, cred) : scheme \in {LicensePrefix, BearerPrefix},
                               cred \in RequestTokens \cup {EmptyToken}}

\* config is config.enforcement, mode the instance's this.enforcement
\* base: the supertabBaseUrl the call passes on; opt: options.baseUrl of
\* the static verify; reason, error: the arguments of a direct call of
\* buildBlockResult
NoRequest ==
  [kind |-> "none", auth |-> NoAuth, rurl |-> UrlArticle, config |-> Unconfigured,
   mode |-> SOFT, det |-> "none", reason |-> "", base |-> BaseUrl, opt |-> Undef,
   error |-> Undef]
Request(auth, rurl, config, det) ==
  [kind |-> "handle", auth |-> auth, rurl |-> rurl, config |-> config,
   mode |-> enforcement(config), det |-> det, reason |-> "", base |-> BaseUrl, opt |-> Undef,
   error |-> Undef]

\* mutant: whatever follows any scheme is taken as the token
hasToken_AnyScheme(auth) == auth.has /\ ~auth.cred.empty

\* auth.startsWith("License ") ? auth.slice(8) : null, then `if (token)`:
\* whether the request carries a token
hasToken(auth) ==
  /\ auth.has
  /\ startsWith(auth.scheme, LicensePrefix)
  /\ (SubSeq(auth.scheme, Len(LicensePrefix) + 1, Len(auth.scheme)) # <<>> \/ ~auth.cred.empty)

\* mutant: a request counts as a bot's when no detector is configured
isBot_Unconfigured(det) == det # "human"

\* this.botDetector?.(request, ctx) ?? false
isBot(det) == det = "bot"

\* ------------------------------------------------------------------ events

NoEvent == [name |-> "", status |-> "", reason |-> "", licenseId |-> Undef]

\* mutant: every failure is reported under one event name
eventFor_GenericFailure(verification) ==
  [name |-> IF verification.valid THEN "license_used" ELSE "license_token_verification_failed",
   status |-> IF verification.valid THEN "valid" ELSE "invalid",
   reason |-> IF verification.valid THEN "success" ELSE verification.reason,
   licenseId |-> verification.licenseId]

\* the event verifyAndRecordEvent issues for a verification result
eventFor(verification) ==
  [name |-> IF verification.valid THEN "license_used" ELSE verification.reason,
   status |-> IF verification.valid THEN "valid" ELSE "invalid",
   reason |-> IF verification.valid THEN "success" ELSE verification.reason,
   licenseId |-> verification.licenseId]

\* ---------------------------------------------------- analytics dispatch

\* the execution context passed to handleRequest: one with waitUntil, or none
Contexts == { "waitUntil", "none" }

\* state is "none", "pending" or "completed"; handed: whether the pending
\* call was given to ctx.waitUntil; post: how the POST ended; settled: how
\* the promise of recordEvent settled
NoDispatch ==
  [state |-> "none", ctx |-> "none", handed |-> FALSE, post |-> "none", settled |-> "none"]
Dispatched(ctx) ==
  [state |-> "pending", ctx |-> ctx, handed |-> ctx = "waitUntil", post |-> "none",
   settled |-> "none"]

\* how the POST to /events ends: 2xx, another status, or fetch rejects
PostOutcomes == { "ok", "non2xx", "neterr" }

\* mutant: a network error of the POST is thrown on to the caller
recordEvent_Rethrows(outcome) ==
  CASE outcome = "neterr" -> "rejected"
    [] OTHER -> "fulfilled"

\* recordEvent (events.ts): a non-2xx response is logged, an exception is
\* caught and logged; the promise is fulfilled either way
recordEvent(outcome) ==
  CASE outcome = "ok" -> "fulfilled"
    [] outcome = "non2xx" -> "fulfilled"
    [] OTHER -> "fulfilled"

\* ----------------------------------------------------------- CDN adapters

Adapters == { "cloudflare", "fastly", "cloudfront" }

\* What the client gets.  forwarded: the request went to the origin and the
\* origin's response is what comes back, with `headers` set on top of it;
\* otherwise a response with `status` and `headers` built at the edge.
NoClient == [adapter |-> "none", forwarded |-> FALSE, status |-> 0, headers |-> {}]
Forwarded(adapter, headers) ==
  [adapter |-> adapter, forwarded |-> TRUE, status |-> 0, headers |-> headers]
Blocked(adapter, result) ==
  [adapter |-> adapter, forwarded |-> FALSE, status |-> result.status,
   headers |-> result.headers]

\* cdn.ts lines 16 - 42
handleCloudflareRequest(result) ==
  IF result.action = BLOCK THEN Blocked("cloudflare", result)
  ELSE Forwarded("cloudflare", result.headers)

\* cdn.ts lines 60 - 82
handleFastlyRequest(result) ==
  IF result.action = BLOCK THEN Blocked("fastly", result)
  ELSE Forwarded("fastly", result.headers)

\* cdn.ts lines 95 - 132: an allowed request is returned as it came
handleCloudfrontRequest(result) ==
  IF result.action = BLOCK THEN Blocked("cloudfront", result)
  ELSE Forwarded("cloudfront", {})

\* ------------------------------------------------------------ customer.ts

MaxBlocks == 3

\* new URL(block.urlPattern): it throws (parses = FALSE), or it has a host
\* and a pathname; server and licenseXml of the block play no part
UnparsedBlock == [parses |-> FALSE, host |-> "", path |-> <<>>]
ContentBlock(host, path) == [parses |-> TRUE, host |-> host, path |-> path]

Hosts == { "h1", "h2" }
PatternPaths ==
  { << "/" >>, << "/", "*" >>, << "/", "a" >>, << "/", "a", "/", "*" >>,
    << "/", "a", "/", "b" >>, << "/", "a", "/", "b", "/", "*" >> }
ResourcePaths ==
  { << "/" >>, << "/", "a" >>, << "/", "a", "/" >>, << "/", "a", "/", "b" >>,
    << "/", "a", "/", "b", "/", "a" >>, << "/", "b" >> }
ContentBlocks ==
  { UnparsedBlock } \cup { ContentBlock(h, p) : h \in Hosts, p \in PatternPaths }

\* host and pathname of new URL(resourceUrl)
Resources == [host : { "h1" }, path : ResourcePaths]

\* patternPath.endsWith("/*")
endsWithWildcard(path) ==
  Len(path) >= 2 /\ path[Len(path) - 1] = "/" /\ path[Len(path)] = "*"

\* patternPath.slice(0, -1)
wildcardPrefix(path) == SubSeq(path, 1, Len(path) - 1)

\* the block is a wildcard pattern on the resource's host under which the
\* resource path lies
wildcardMatches(block, resource) ==
  /\ block.parses /\ block.host = resource.host
  /\ endsWithWildcard(block.path)
  /\ startsWith(resource.path, wildcardPrefix(block.path))

\* mutant: the first wildcard pattern that matches is taken
findBestMatchingContent_FirstWildcard(contentBlocks, resource) ==
  LET exact == { i \in 1..Len(contentBlocks) :
                   /\ contentBlocks[i].parses /\ contentBlocks[i].host = resource.host
                   /\ contentBlocks[i].path = resource.path }
      wild == { i \in 1..Len(contentBlocks) : wildcardMatches(contentBlocks[i], resource) }
      first(S) == CHOOSE i \in S : \A j \in S : i <= j
  IN IF exact # {} THEN first(exact)
     ELSE IF wild # {} THEN first(wild)
     ELSE 0

\* the loop of findBestMatchingContent from block i on, with bestMatch (an
\* index, 0 for null) and bestSpecificity so far
RECURSIVE bestMatchFrom(_, _, _, _, _)
bestMatchFrom(contentBlocks, resource, i, bestMatch, bestSpecificity) ==
  IF i > Len(contentBlocks) THEN bestMatch
  ELSE LET block == contentBlocks[i]
       IN IF ~block.parses \/ block.host # resource.host
          THEN bestMatchFrom(contentBlocks, resource, i + 1, bestMatch, bestSpecificity)
          ELSE IF block.path = resource.path THEN i
          ELSE IF /\ wildcardMatches(block, resource)
                  /\ Len(wildcardPrefix(block.path)) > bestSpecificity
          THEN bestMatchFrom(contentBlocks, resource, i + 1, i,
                             Len(wildcardPrefix(block.path)))
          ELSE bestMatchFrom(contentBlocks, resource, i + 1, bestMatch, bestSpecificity)

\* findBestMatchingContent(contentBlocks, resourceUrl): the index of the
\* block returned, 0 for null
findBestMatchingContent(contentBlocks, resource) ==
  bestMatchFrom(contentBlocks, resource, 1, 0, 0 - 1)

NoContent == [called |-> FALSE, blocks |-> <<>>, resource |-> [host |-> "h1", path |-> << "/" >>],
              result |-> 0]

\* ------------------------------------------------- the SupertabConnect class

\* config.debug: true, false, or not given
DebugConfigs == { Unconfigured, "true", "false" }

\* config.apiKey: a key, or "" for a key that is empty or not given
ApiKeys == { "k1", "k2", "" }

\* SupertabConnectConfig
Configs ==
  [apiKey : ApiKeys, enforcement : EnforcementConfigs, botDetector : {"none", "bot"},
   debug : DebugConfigs]

\* no instance is registered (_instance is null), or no object came back
NoInstance ==
  [apiKey |-> "", enforcement |-> "none", botDetector |-> "none", debug |-> FALSE,
   registered |-> FALSE]

\* the fields the constructor assigns from a config
instanceOf(config) ==
  [apiKey |-> config.apiKey, enforcement |-> enforcement(config.enforcement),
   botDetector |-> config.botDetector, debug |-> config.debug = "true", registered |-> TRUE]

\* one constructor call: its arguments, the instance registered before it,
\* how it ended, the object `new` evaluated to, the instance registered after
Made(config, reset, before, outcome, object, after) ==
  [config |-> config, reset |-> reset, before |-> before, outcome |-> outcome,
   object |-> object, after |-> after]
NoConfig == [apiKey |-> "", enforcement |-> Unconfigured, botDetector |-> "none",
             debug |-> Unconfigured]
NoMade == Made(NoConfig, FALSE, NoInstance, "none", NoInstance, NoInstance)

\* new SupertabConnect(config, reset) while `registered` is the singleton
construct(config, reset, registered) ==
  IF ~reset /\ registered.registered
  THEN IF config.apiKey # registered.apiKey
       THEN Made(config, reset, registered, "threw different", NoInstance, registered)
       ELSE Made(config, reset, registered, "returned", registered, registered)
  ELSE IF config.apiKey = ""
       THEN Made(config, reset, registered, "threw missing", NoInstance, NoInstance)
       ELSE Made(config, reset, registered, "created", instanceOf(config), instanceOf(config))

\* options.baseUrl of the static verify: a URL, or not given
BaseUrlOptions == { Undef, Str(<<"s">>), Str(<<"e">>) }

\* mutant: the static verify always uses the static base URL
effectiveBaseUrl_IgnoresOption(opt, static) == static

\* options.baseUrl ?? SupertabConnect.baseUrl
effectiveBaseUrl(opt, static) == IF opt.t = "undef" THEN static ELSE opt.s

\* what verify and verifyAndRecord return for a verification result
NoOut == [valid |-> FALSE, error |-> Undef, returned |-> FALSE]
RSLVerificationResult(result) ==
  IF result.valid THEN [valid |-> TRUE, error |-> Undef, returned |-> TRUE]
  ELSE [valid |-> FALSE, error |-> result.error, returned |-> TRUE]

\* at: the time the response of the call's pending fetch was served (0: none
\* pending); after: the call whose response had been served before (0: none)
NoServed == [at |-> 0, after |-> 0]

\* no call is in progress and the cache is empty
Idle ==
  /\ instance = NoInstance
  /\ made = NoMade
  /\ out = [c \in Calls |-> NoOut]
  /\ removed = EmptyCache
  /\ content = NoContent
  /\ cachedFrom = <<>>
  /\ served = [c \in Calls |-> NoServed]
  /\ now = StartNow
  /\ ticks = 0
  /\ endpoint \in Endpoints
  /\ jwksCache = EmptyCache
  /\ pc = [c \in Calls |-> "idle"]
  /\ tok = [c \in Calls |-> EmptyToken]
  /\ url = [c \in Calls |-> UrlArticle]
  /\ resp = [c \in Calls |-> NoResp]
  /\ jwks = [c \in Calls |-> NoDoc]
  /\ res = [c \in Calls |-> NoResult]
  /\ nret = [c \in Calls |-> 0]
  /\ nnet = [c \in Calls |-> 0]
  /\ ninv = [c \in Calls |-> 0]
  /\ req = [c \in Calls |-> NoRequest]
  /\ botAsked = [c \in Calls |-> FALSE]
  /\ event = [c \in Calls |-> NoEvent]
  /\ hres = [c \in Calls |-> NoHandlerResult]
  /\ dispatch = [c \in Calls |-> NoDispatch]
  /\ client = [c \in Calls |-> NoClient]

Init == baseUrl = BaseUrl /\ Idle

\* ------------------------------------------------------- the environment

\* the clock advances by a millisecond or by one millisecond less than the TTL
TickSteps == {1, JWKS_CACHE_TTL_MS - 1}

Tick ==
  /\ ticks < MaxTicks
  /\ \E d \in TickSteps : now' = now + d
  /\ ticks' = ticks + 1
  /\ UNCHANGED << served, cachedFrom, content, sdk, removed, endpoint, baseUrl, jwksCache, pc, locals, handler >>

\* the endpoint's answer changes: key rotation, an outage, a recovery
EndpointChanges ==
  /\ \E e \in Endpoints \ {endpoint} : endpoint' = e
  /\ UNCHANGED << served, cachedFrom, content, sdk, removed, now, ticks, baseUrl, jwksCache, pc, locals, handler >>

\* ----------------------------------------------------------------- jwks.ts

\* clearJwksCache()
\* mutant: only an entry past its TTL is removed
ClearJwksCache_ExpiredOnly ==
  /\ jwksCache.has
  /\ jwksCache' = IF CacheFresh(jwksCache, now) THEN jwksCache ELSE EmptyCache
  /\ removed' = jwksCache
  /\ cachedFrom' = IF jwksCache'.has THEN cachedFrom ELSE <<>>
  /\ UNCHANGED << served, content, sdk, env, pc, locals, handler >>

ClearJwksCache ==
  /\ jwksCache.has
  /\ jwksCache' = EmptyCache
  /\ removed' = jwksCache
  /\ cachedFrom' = IF jwksCache'.has THEN cachedFrom ELSE <<>>
  /\ UNCHANGED << served, content, sdk, env, pc, locals, handler >>

\* ------------------------------------------------------ verifyLicenseToken

\* entry: the call suspends at `await loadJose()`
Enter(c, tokens, urls) ==
  /\ pc[c] = "idle"
  /\ \E token \in tokens, requestUrl \in urls :
       /\ tok' = [tok EXCEPT ![c] = token]
       /\ url' = [url EXCEPT ![c] = requestUrl]
  /\ pc' = [pc EXCEPT ![c] = "checks"]
  /\ req' = [req EXCEPT ![c].kind = "verify", ![c].base = baseUrl]
  /\ UNCHANGED << served, cachedFrom, content, sdk, removed, env, jwksCache, resp, jwks, res, nret, nnet, ninv, botAsked, event, hres,
                  dispatch, client >>

\* a call of verifyLicenseToken with any of the tokens
VerifyLicenseToken(c) == Enter(c, Tokens, Urls)

\* the tokens of two simultaneous calls: valid ones, and tokens of other
\* algorithms that differ in payload, signature and key identifier
PairTokens ==
  { GoodToken, [GoodToken EXCEPT !.kid = K2], [GoodToken EXCEPT !.alg = "undef"] }
    \cup { [GoodToken EXCEPT !.alg = "RS256", !.pl = p, !.sig = g, !.kid = k] :
              p \in PlValues, g \in SigValues, k \in {K1, K2} }

VerifyLicenseTokenPair(c) == Enter(c, PairTokens, Urls)

\* Lines 39 - 128 and fetchAndCacheJwks up to its first await, which run
\* without interruption: the checks, then the cache lookup, then either the
\* cached key set or the start of a network fetch.
Checks(c) ==
  /\ pc[c] = "checks"
  /\ LET o == PreChecks(tok[c], url[c], req[c].base)
     IN CASE o.kind = "return" ->
               /\ res' = [res EXCEPT ![c] = o.result]
               /\ pc' = [pc EXCEPT ![c] = "done"]
               /\ UNCHANGED << jwks, nret, nnet, removed >>
          [] o.kind = "throw" ->
               /\ pc' = [pc EXCEPT ![c] = "threw"]
               /\ UNCHANGED << res, jwks, nret, nnet, removed >>
          [] OTHER ->
               /\ nret' = [nret EXCEPT ![c] = @ + 1]
               /\ removed' = EmptyCache
               /\ IF CacheFresh(jwksCache, now)
                  THEN /\ jwks' = [jwks EXCEPT ![c] = jwksCache.data]
                       /\ pc' = [pc EXCEPT ![c] = "verify"]
                       /\ UNCHANGED nnet
                  ELSE /\ nnet' = [nnet EXCEPT ![c] = @ + 1]
                       /\ pc' = [pc EXCEPT ![c] = "fetching"]
                       /\ UNCHANGED jwks
               /\ UNCHANGED res
  /\ UNCHANGED << served, cachedFrom, content, sdk, env, jwksCache, tok, url, resp, ninv, handler >>

\* the endpoint answers the pending GET
FetchServed(c) ==
  /\ pc[c] = "fetching"
  /\ resp' = [resp EXCEPT ![c] = endpoint]
  /\ pc' = [pc EXCEPT ![c] = "responded"]
  /\ served' = [served EXCEPT ![c] =
       [at |-> now,
        after |-> IF \E d \in Calls \ {c} : pc[d] \in {"responded", "verify", "done"} /\ nnet[d] > 0
                  THEN CHOOSE d \in Calls \ {c} :
                         pc[d] \in {"responded", "verify", "done"} /\ nnet[d] > 0
                  ELSE 0]]
  /\ UNCHANGED << cachedFrom, content, sdk, removed, env, jwksCache, tok, url, jwks, res, nret, nnet, ninv, handler >>

\* fetchAndCacheJwks lines 133 - 147 once the response is in: a 2xx JSON body
\* is stored with the current time and returned; anything else is thrown and
\* becomes the catch block of verifyLicenseToken lines 129 - 138
FetchSettled(c) ==
  /\ pc[c] = "responded"
  /\ jwksCache' = cacheAfterFetch(jwksCache, resp[c], now)
  /\ IF resp[c].status = "ok"
     THEN /\ jwks' = [jwks EXCEPT ![c] = resp[c].doc]
          /\ pc' = [pc EXCEPT ![c] = "verify"]
          /\ removed' = EmptyCache
          /\ cachedFrom' = req[c].base
          /\ UNCHANGED res
     ELSE /\ res' = [res EXCEPT ![c] = fetchFailed(tok[c].lic)]
          /\ pc' = [pc EXCEPT ![c] = "done"]
          /\ UNCHANGED << jwks, removed, cachedFrom >>
  /\ served' = [served EXCEPT ![c].at = 0]
  /\ UNCHANGED << content, sdk, env, tok, url, resp, nret, nnet, ninv, handler >>

\* lines 140 - 178: jwtVerify with the key set in hand, and the classification
JwtVerify(c) ==
  /\ pc[c] = "verify"
  /\ res' = [res EXCEPT ![c] = verifyWithKeys(tok[c], jwks[c], now)]
  /\ pc' = [pc EXCEPT ![c] = "done"]
  /\ UNCHANGED << served, cachedFrom, content, sdk, removed, env, jwksCache, tok, url, resp, jwks, nret, nnet, ninv, handler >>

\* the caller has taken the result (or the exception); the slot is free again
Return(c) ==
  /\ \/ pc[c] \in {"done", "threw"} /\ req[c].kind = "verify"
     \/ pc[c] \in {"hdone", "hthrew", "delivered", "vdone", "vthrew"}
  /\ pc' = [pc EXCEPT ![c] = "idle"]
  /\ req' = [req EXCEPT ![c] = NoRequest]
  /\ botAsked' = [botAsked EXCEPT ![c] = FALSE]
  /\ event' = [event EXCEPT ![c] = NoEvent]
  /\ hres' = [hres EXCEPT ![c] = NoHandlerResult]
  /\ dispatch' = [dispatch EXCEPT ![c] = NoDispatch]
  /\ client' = [client EXCEPT ![c] = NoClient]
  /\ tok' = [tok EXCEPT ![c] = EmptyToken]
  /\ url' = [url EXCEPT ![c] = UrlArticle]
  /\ resp' = [resp EXCEPT ![c] = NoResp]
  /\ jwks' = [jwks EXCEPT ![c] = NoDoc]
  /\ res' = [res EXCEPT ![c] = NoResult]
  /\ nret' = [nret EXCEPT ![c] = 0]
  /\ nnet' = [nnet EXCEPT ![c] = 0]
  /\ ninv' = [ninv EXCEPT ![c] = 0]
  /\ out' = [out EXCEPT ![c] = NoOut]
  /\ served' = [d \in Calls |->
       IF d = c THEN NoServed
       ELSE [served[d] EXCEPT !.after = IF @ = c THEN 0 ELSE @]]
  /\ UNCHANGED << cachedFrom, content, env, jwksCache, instance, made, removed >>

\* ------------------------------------------- SupertabConnect.handleRequest

\* error: "Authorization header missing or malformed"
MissingTokenError == Str(Chars("Authorization header missing or malformed"))

\* mutant: a token is verified whatever the enforcement mode
HandleRequest_AlwaysValidates(c) ==
  /\ pc[c] = "idle"
  /\ \E auth \in AuthHeaders, rurl \in Urls, config \in EnforcementConfigs,
        det \in BotDetectors :
       LET mode == enforcement(config)
       IN /\ req' = [req EXCEPT ![c] = [Request(auth, rurl, config, det) EXCEPT !.base = baseUrl]]
          /\ IF hasToken(auth)
             THEN /\ tok' = [tok EXCEPT ![c] = auth.cred]
                  /\ url' = [url EXCEPT ![c] = rurl]
                  /\ pc' = [pc EXCEPT ![c] = "checks"]
                  /\ UNCHANGED << hres, botAsked >>
             ELSE /\ botAsked' = [botAsked EXCEPT ![c] = det # "none"]
                  /\ hres' = [hres EXCEPT ![c] =
                       IF ~isBot(det) THEN AllowResult
                       ELSE CASE mode = STRICT ->
                                   buildBlockResult(MISSING_TOKEN, MissingTokenError, rurl)
                              [] mode = SOFT -> buildSignalResult(rurl)
                              [] OTHER -> AllowResult]
                  /\ pc' = [pc EXCEPT ![c] = "hdone"]
                  /\ UNCHANGED << tok, url >>
  /\ UNCHANGED << served, cachedFrom, content, sdk, removed, env, jwksCache, resp, jwks, res, nret, nnet, ninv, event, dispatch, client >>

\* handleRequest up to its first suspension.  With a token and enforcement
\* not disabled it enters verifyAndRecordEvent, which enters
\* verifyLicenseToken; otherwise it returns at once.
HandleRequest(c) ==
  /\ pc[c] = "idle"
  /\ \E auth \in AuthHeaders, rurl \in Urls, config \in EnforcementConfigs,
        det \in BotDetectors :
       LET mode == enforcement(config)
       IN /\ req' = [req EXCEPT ![c] = [Request(auth, rurl, config, det) EXCEPT !.base = baseUrl]]
          /\ IF hasToken(auth)
             THEN IF mode = DISABLED
                  THEN /\ hres' = [hres EXCEPT ![c] = AllowResult]
                       /\ pc' = [pc EXCEPT ![c] = "hdone"]
                       /\ UNCHANGED << tok, url, botAsked >>
                  ELSE /\ tok' = [tok EXCEPT ![c] = auth.cred]
                       /\ url' = [url EXCEPT ![c] = rurl]
                       /\ pc' = [pc EXCEPT ![c] = "checks"]
                       /\ UNCHANGED << hres, botAsked >>
             ELSE /\ botAsked' = [botAsked EXCEPT ![c] = det # "none"]
                  /\ hres' = [hres EXCEPT ![c] =
                       IF ~isBot(det) THEN AllowResult
                       ELSE CASE mode = STRICT ->
                                   buildBlockResult(MISSING_TOKEN, MissingTokenError, rurl)
                              [] mode = SOFT -> buildSignalResult(rurl)
                              [] OTHER -> AllowResult]
                  /\ pc' = [pc EXCEPT ![c] = "hdone"]
                  /\ UNCHANGED << tok, url >>
  /\ UNCHANGED << served, cachedFrom, content, sdk, removed, env, jwksCache, resp, jwks, res, nret, nnet, ninv, event, dispatch, client >>

\* verifyLicenseToken has ended.  The rest of verifyAndRecordEvent (as in
\* validateTokenAndBuildResult, license.ts lines 339 - 371) and of
\* handleRequest runs without suspension: the analytics call is started, the
\* pending call is handed to ctx.waitUntil when the context has one, and the
\* result is returned as Allow or Block.  An exception passes through both.
HandleResume(c) ==
  /\ req[c].kind = "handle"
  /\ \/ /\ pc[c] = "done"
        /\ event' = [event EXCEPT ![c] = eventFor(res[c])]
        /\ \E ctx \in Contexts :
             dispatch' = [dispatch EXCEPT ![c] = Dispatched(ctx)]
        /\ hres' = [hres EXCEPT ![c] =
             IF ~res[c].valid THEN buildBlockResult(res[c].reason, res[c].error, url[c])
             ELSE AllowResult]
        /\ pc' = [pc EXCEPT ![c] = "hdone"]
     \/ /\ pc[c] = "threw"
        /\ pc' = [pc EXCEPT ![c] = "hthrew"]
        /\ UNCHANGED << event, hres, dispatch >>
  /\ UNCHANGED << served, cachedFrom, content, sdk, removed, env, jwksCache, locals, req, botAsked, client >>

\* the POST of recordEvent completes
EventCompletes(c) ==
  /\ dispatch[c].state = "pending"
  /\ \E outcome \in PostOutcomes :
       dispatch' = [dispatch EXCEPT ![c].state = "completed", ![c].post = outcome,
                                    ![c].settled = recordEvent(outcome)]
  /\ UNCHANGED << served, cachedFrom, content, sdk, removed, env, jwksCache, pc, locals, req, botAsked, event, hres, client >>

\* A CDN entry point hands back its answer for the request handleRequest has
\* dealt with: the adapter's translation of the HandlerResult, or, when
\* handleRequest threw, the request forwarded to the origin.
Deliver(c) ==
  /\ req[c].kind = "handle"
  /\ pc[c] \in {"hdone", "hthrew"}
  /\ \E adapter \in Adapters :
       client' = [client EXCEPT ![c] =
         IF pc[c] = "hthrew" THEN Forwarded(adapter, {})
         ELSE CASE adapter = "cloudflare" -> handleCloudflareRequest(hres[c])
                [] adapter = "fastly" -> handleFastlyRequest(hres[c])
                [] OTHER -> handleCloudfrontRequest(hres[c])]
  /\ pc' = [pc EXCEPT ![c] = "delivered"]
  /\ UNCHANGED << served, cachedFrom, content, sdk, removed, env, jwksCache, locals, req, botAsked, event, hres, dispatch >>

\* cloudflareHandleRequests, fastlyHandleRequests and cloudfrontHandleRequests
\* when `new SupertabConnect` throws: the catch block logs the error and hands
\* the request to the origin.
HandleRequestsCatch(c) ==
  /\ pc[c] = "idle"
  /\ \E auth \in AuthHeaders, rurl \in Urls, config \in EnforcementConfigs,
        det \in BotDetectors, apiKey \in ApiKeys, adapter \in Adapters :
       LET m == construct([apiKey |-> apiKey, enforcement |-> config, botDetector |-> det,
                           debug |-> Unconfigured], FALSE, instance)
       IN /\ m.outcome \in { "threw missing", "threw different" }
          /\ made' = m
          /\ instance' = m.after
          /\ req' = [req EXCEPT ![c] = [Request(auth, rurl, config, det) EXCEPT !.base = baseUrl]]
          /\ client' = [client EXCEPT ![c] = Forwarded(adapter, {})]
  /\ pc' = [pc EXCEPT ![c] = "delivered"]
  /\ UNCHANGED << served, cachedFrom, content, env, jwksCache, locals, botAsked, event, hres, dispatch, out, removed >>

\* a direct call of the exported buildBlockResult with any reason string
ReasonInputs ==
  LicenseTokenInvalidReason \cup {"license_token_verification_failed", "revoked", ""}

\* the descriptions passed as `error`: none, a plain one, and ones with a
\* double quote, a backslash before a double quote, a trailing backslash,
\* and a line break followed by a header line
ErrorInputs ==
  { Undef } \cup
  { Str(chars) : chars \in { << "o", "k" >>, << "a", "\"", "b" >>, << "a", "\\", "\"", "b" >>,
                             << "a", "\\" >>, << "a", CR, LF, "X", ":", "b" >> } }

BuildBlockResult(c) ==
  /\ pc[c] = "idle"
  /\ \E reason \in ReasonInputs, error \in ErrorInputs, requestUrl \in Urls :
       /\ req' = [req EXCEPT ![c] = [NoRequest EXCEPT !.kind = "build", !.reason = reason,
                                                      !.error = error, !.rurl = requestUrl]]
       /\ hres' = [hres EXCEPT ![c] = buildBlockResult(reason, error, requestUrl)]
  /\ pc' = [pc EXCEPT ![c] = "hdone"]
  /\ UNCHANGED << served, cachedFrom, content, sdk, removed, env, jwksCache, locals, botAsked, event, dispatch, client >>

\* ------------------------------------------------ SupertabConnect statics

\* new SupertabConnect(config, reset)
Construct(configs) ==
  /\ \E config \in configs, reset \in BOOLEAN :
       made' = construct(config, reset, instance)
  /\ instance' = made'.after
  /\ UNCHANGED << served, cachedFrom, content, env, jwksCache, pc, locals, handler, out, removed >>

\* SupertabConnect.resetInstance()
ResetInstance ==
  /\ instance.registered
  /\ instance' = NoInstance
  /\ UNCHANGED << served, cachedFrom, content, env, jwksCache, pc, locals, handler, made, out, removed >>

\* SupertabConnect.setBaseUrl(url)
SetBaseUrl ==
  /\ \E u \in { <<"s">>, <<"e">> } \ { baseUrl } : baseUrl' = u
  /\ UNCHANGED << served, cachedFrom, content, now, ticks, endpoint, jwksCache, pc, locals, handler, sdk, removed >>

\* the tokens given to the static verify
VerifyTokens == RequestTokens \cup { EmptyToken }

\* SupertabConnect.verify(options) up to the first suspension of
\* verifyLicenseToken
Verify(c) ==
  /\ pc[c] = "idle"
  /\ \E token \in VerifyTokens, resourceUrl \in Urls, opt \in BaseUrlOptions :
       /\ tok' = [tok EXCEPT ![c] = token]
       /\ url' = [url EXCEPT ![c] = resourceUrl]
       /\ req' = [req EXCEPT ![c] =
            [NoRequest EXCEPT !.kind = "static", !.opt = opt,
                              !.base = effectiveBaseUrl(opt, baseUrl)]]
  /\ pc' = [pc EXCEPT ![c] = "checks"]
  /\ UNCHANGED << served, cachedFrom, content, env, jwksCache, resp, jwks, res, nret, nnet, ninv, botAsked, event, hres,
                  dispatch, client, sdk, removed >>

\* verifyLicenseToken has ended: verify returns { valid: true } or
\* { valid: false, error: result.error }; an exception passes through
VerifyReturns(c) ==
  /\ req[c].kind = "static"
  /\ \/ /\ pc[c] = "done"
        /\ out' = [out EXCEPT ![c] = RSLVerificationResult(res[c])]
        /\ pc' = [pc EXCEPT ![c] = "vdone"]
     \/ /\ pc[c] = "threw"
        /\ pc' = [pc EXCEPT ![c] = "vthrew"]
        /\ UNCHANGED out
  /\ UNCHANGED << served, cachedFrom, content, env, jwksCache, locals, handler, instance, made, removed >>

\* ------------------------------------------------- findBestMatchingContent

BlockLists ==
  UNION { [1..n -> ContentBlocks] : n \in 0..MaxBlocks }

FindBestMatchingContent ==
  /\ ~content.called
  /\ \E contentBlocks \in BlockLists, resource \in Resources :
       content' = [called |-> TRUE, blocks |-> contentBlocks, resource |-> resource,
                   result |-> findBestMatchingContent(contentBlocks, resource)]
  /\ UNCHANGED << served, cachedFrom, env, jwksCache, pc, locals, handler, sdk, removed >>

\* ---------------------------------------------------------- specifications

\* one verification at a time, against a changing endpoint, clock and cache
Next ==
  \/ Tick
  \/ EndpointChanges
  \/ ClearJwksCache
  \/ VerifyLicenseToken(1)
  \/ Checks(1)
  \/ FetchServed(1)
  \/ FetchSettled(1)
  \/ JwtVerify(1)
  \/ Return(1)

Spec == Init /\ [][Next]_vars

\* one request at a time through handleRequest, and direct calls of
\* buildBlockResult
NextHandle ==
  \/ EndpointChanges
  \/ HandleRequest(1)
  \/ Checks(1)
  \/ FetchServed(1)
  \/ FetchSettled(1)
  \/ JwtVerify(1)
  \/ HandleResume(1)
  \/ EventCompletes(1)
  \/ BuildBlockResult(1)
  \/ Return(1)

SpecHandle == Init /\ [][NextHandle]_vars

\* requests through the CDN entry points
NextCdn ==
  \/ EndpointChanges
  \/ HandleRequest(1)
  \/ Checks(1)
  \/ FetchServed(1)
  \/ FetchSettled(1)
  \/ JwtVerify(1)
  \/ HandleResume(1)
  \/ EventCompletes(1)
  \/ Deliver(1)
  \/ Return(1)

SpecCdn == Init /\ [][NextCdn]_vars

\* requests through the CDN entry points, from the construction of the
\* instance on
NextEntry ==
  \/ HandleRequestsCatch(1)
  \/ HandleRequest(1)
  \/ Checks(1)
  \/ FetchServed(1)
  \/ FetchSettled(1)
  \/ JwtVerify(1)
  \/ HandleResume(1)
  \/ Deliver(1)
  \/ Return(1)

SpecEntry == Init /\ [][NextEntry]_vars

\* two verifications at once, sharing the cache
NextPair ==
  \/ EndpointChanges
  \/ \E c \in Calls : VerifyLicenseTokenPair(c)
  \/ \E c \in Calls : Checks(c)
  \/ \E c \in Calls : FetchServed(c)
  \/ \E c \in Calls : FetchSettled(c)
  \/ \E c \in Calls : JwtVerify(c)
  \/ \E c \in Calls : Return(c)

SpecPair == Init /\ [][NextPair]_vars

\* the issuer and audience checks over many claim values, base URLs and
\* request URLs
BaseUrls == { <<"s">>, <<"s", "/">>, <<"s", "/", "/">> }

IssInputs ==
  { Undef, Num } \cup
  { Str(chars) : chars \in { <<>>, <<"s">>, <<"s", "/">>, <<"s", "/", "/">>, <<"s", "/", "v">>,
                             <<"s", "x">>, <<"e">>, <<"e", "s">>, <<"/">>, <<" ", "s">>,
                             <<"s", " ">>, <<"s", "/", " ">>, <<" ">> } }

AudInputs ==
  { Undef, Num, List(<<>>), List(<< Num >>), List(<< Num, Str(<<"u">>) >>),
    List(<< Str(<<"o">>), Str(<<"u", "/">>) >>), List(<< Str(<<"o">>), Str(<<"/">>) >>) } \cup
  { Str(chars) : chars \in { <<>>, <<"u">>, <<"u", "/">>, <<"u", "/", "a">>,
                             <<"u", "/", "a", "/", "b">>, <<"o">>, <<"a">>, <<"/">>,
                             <<" ", "u">>, <<"u", "/", " ">>, <<" ">> } }

UrlInputs == { UrlArticle, <<"u", "/", "a", "/">>, <<"u">>, UrlOther }

CheckTokens ==
  { [GoodToken EXCEPT !.iss = i] : i \in IssInputs }
    \cup { [GoodToken EXCEPT !.aud = a] : a \in AudInputs }
    \cup { [GoodToken EXCEPT !.iss = i, !.aud = Str(<<"o">>)] : i \in { Undef, Str(<<"e">>) } }

InitChecks == baseUrl \in BaseUrls /\ Idle

VerifyLicenseTokenChecks(c) == Enter(c, CheckTokens, UrlInputs)

NextChecks ==
  \/ VerifyLicenseTokenChecks(1)
  \/ Checks(1)
  \/ FetchServed(1)
  \/ FetchSettled(1)
  \/ JwtVerify(1)
  \/ Return(1)

SpecChecks == InitChecks /\ [][NextChecks]_vars

\* the cache under verifications of well-formed tokens, while the clock
\* advances, the endpoint changes and the cache is cleared
CacheTokens == { [GoodToken EXCEPT !.kid = k, !.lic = l] : k \in { K1, K2 }, l \in LicValues }

VerifyLicenseTokenCache(c) == Enter(c, CacheTokens, { UrlArticle })

NextCache ==
  \/ Tick
  \/ EndpointChanges
  \/ ClearJwksCache
  \/ VerifyLicenseTokenCache(1)
  \/ Checks(1)
  \/ FetchServed(1)
  \/ FetchSettled(1)
  \/ JwtVerify(1)
  \/ Return(1)

SpecCache == Init /\ [][NextCache]_vars

\* calls of findBestMatchingContent with any list of blocks
NextMatch == FindBestMatchingContent

SpecMatch == Init /\ [][NextMatch]_vars

\* constructor and resetInstance calls in any order
InstanceConfigs == { c \in Configs : c.debug # "false" /\ c.enforcement # DISABLED }

NextInstance ==
  \/ Construct(InstanceConfigs)
  \/ ResetInstance

SpecInstance == Init /\ [][NextInstance]_vars

\* the static verify, while instances are made and cleared and the base URL
\* is set
VerifyConfigs == { c \in Configs : c.apiKey = "k1" /\ c.botDetector = "none" /\ c.debug = "true"
                                   /\ c.enforcement = STRICT }

NextVerify ==
  \/ EndpointChanges
  \/ Construct(VerifyConfigs)
  \/ ResetInstance
  \/ SetBaseUrl
  \/ Verify(1)
  \/ Checks(1)
  \/ FetchServed(1)
  \/ FetchSettled(1)
  \/ JwtVerify(1)
  \/ VerifyReturns(1)
  \/ Return(1)

SpecVerify == Init /\ [][NextVerify]_vars

\* verification of tokens around the expiry boundary, while the clock advances
ExpiryTokens ==
  { [GoodToken EXCEPT !.exp = e, !.sig = g, !.kid = k] :
      e \in { NoExp, Exp(59), Exp(60), Exp(61), Exp(1000000000) },
      g \in SigValues, k \in { K1, K2 } }

VerifyLicenseTokenExpiry(c) == Enter(c, ExpiryTokens, { UrlArticle })

NextExpiry ==
  \/ Tick
  \/ EndpointChanges
  \/ VerifyLicenseTokenExpiry(1)
  \/ Checks(1)
  \/ FetchServed(1)
  \/ FetchSettled(1)
  \/ JwtVerify(1)
  \/ Return(1)

SpecExpiry == Init /\ [][NextExpiry]_vars

\* ------------------------------------------------------------------ claims

\* The six checks that precede key-set retrieval, as the specification words
\* them, in its order; each says when the check fails.
CheckFails(i, token, requestUrl) ==
  CASE i = 1 -> token.empty
    [] i = 2 -> token.hdr # "ok"
    [] i = 3 -> token.alg # ES256
    [] i = 4 -> token.pl # "ok"
    [] i = 5 -> ~(token.iss.t = "str" /\ token.iss.s # <<>>
                  /\ startsWith(stripTrailingSlash(token.iss.s), stripTrailingSlash(BaseUrl)))
    [] OTHER -> ~matchesRequestUrl(token.aud, requestUrl)

CheckReason ==
  << MISSING_TOKEN, INVALID_HEADER, INVALID_ALG, INVALID_PAYLOAD, INVALID_ISSUER,
     INVALID_AUDIENCE >>

\* the first failing check, 0 when all six pass
FirstFailure(token, requestUrl) ==
  LET failing == {i \in 1..6 : CheckFails(i, token, requestUrl)}
  IN IF failing = {} THEN 0 ELSE CHOOSE i \in failing : \A j \in failing : i <= j

\* C1: a request that carries a License token, handled under Strict or Soft
\* enforcement, is always verified without the bot detector being asked, and
\* handleRequest returns Allow exactly when the verification result is valid
\* and a Block result otherwise.
C1_TokenAlwaysValidated ==
  \A c \in Calls :
    (/\ req[c].kind = "handle"
     /\ hasToken(req[c].auth)
     /\ req[c].mode \in {STRICT, SOFT}
     /\ pc[c] \in {"hdone", "hthrew"})
    => /\ pc[c] = "hdone"
       /\ ~botAsked[c]
       /\ res[c] # NoResult
       /\ hres[c].action = IF res[c].valid THEN ALLOW ELSE BLOCK

\* C2: the checks run in the order presence, header, algorithm, payload,
\* issuer, audience, key-set retrieval, signature; the call returns the reason
\* of the first check that fails (a token failing issuer and audience yields
\* InvalidIssuer), and no key set is retrieved unless all six checks passed.
C2_FirstFailingCheck ==
  \A c \in Calls :
    LET i == FirstFailure(tok[c], url[c])
    IN /\ (nret[c] > 0 \/ nnet[c] > 0) => i = 0
       /\ (req[c].kind = "verify" /\ pc[c] \in {"done", "threw"} /\ i > 0)
            => pc[c] = "done" /\ res[c].reason = CheckReason[i]
       /\ (req[c].kind = "verify" /\ pc[c] \in {"done", "threw"} /\ i = 0)
            => pc[c] = "done" /\ nret[c] >= 1
                 /\ res[c].reason \in {SERVER_ERROR, SIGNATURE_VERIFICATION_FAILED,
                                       EXPIRED, NoReason}

\* C3: two tokens with a decodable header and the same algorithm other than
\* ES256 both get InvalidAlgorithm, whatever their payload, signature, kid,
\* the request URL and the cache hold, and no key set is fetched for them.
OtherAlgorithm(c) == ~tok[c].empty /\ tok[c].hdr = "ok" /\ tok[c].alg # ES256

C3_AlgorithmAllowList ==
  \A c1, c2 \in Calls :
    (/\ pc[c1] \notin {"idle", "checks"} /\ OtherAlgorithm(c1)
     /\ pc[c2] \notin {"idle", "checks"} /\ OtherAlgorithm(c2)
     /\ tok[c1].alg = tok[c2].alg)
    => /\ pc[c1] = "done" /\ pc[c2] = "done"
       /\ res[c1] = Invalid(INVALID_ALG, Undef)
       /\ res[c2] = res[c1]
       /\ nret[c1] = 0 /\ nnet[c1] = 0 /\ nret[c2] = 0 /\ nnet[c2] = 0

\* two such calls have ended, with different payloads or signatures or kids,
\* different request URLs, and a cache that another call has filled
C3_Witness ==
  /\ pc[1] = "done" /\ pc[2] = "done"
  /\ OtherAlgorithm(1) /\ OtherAlgorithm(2)
  /\ tok[1].alg = tok[2].alg
  /\ tok[1].pl # tok[2].pl /\ tok[1].sig # tok[2].sig /\ tok[1].kid # tok[2].kid
  /\ url[1] # url[2]
  /\ jwksCache.has
  /\ res[1].reason = INVALID_ALG /\ res[2].reason = INVALID_ALG

\* the key-lookup callback finds no key with the token's kid in key set doc
KeyNotFound(token, doc) == doc.hasKeys /\ findKey(doc, token.kid) = <<>>
HasKey(token, doc) == doc.hasKeys /\ findKey(doc, token.kid) # <<>>

\* a token that passes every check, given a key set with its key
OtherwiseValid(token, requestUrl, nowMs) ==
  /\ FirstFailure(token, requestUrl) = 0
  /\ token.sig = "genuine"
  /\ ~(token.exp.t = "num" /\ token.exp.v <= (nowMs \div 1000) - ClockToleranceSec)

\* C4: when the cached key set lacks the token's kid while the endpoint
\* serves a key set that has it, and the token is otherwise valid, the call
\* does not end at the failed lookup: it retries once and succeeds, and the
\* cache then holds the refreshed key set.  As a step property: a call that
\* stands at signature verification with the cached key set, in that
\* situation, does not end invalid.
C4_StaleKeyRetry ==
  [][\A c \in Calls :
       (/\ pc[c] = "verify"
        /\ nnet[c] = 0
        /\ KeyNotFound(tok[c], jwks[c])
        /\ endpoint.status = "ok" /\ HasKey(tok[c], endpoint.doc)
        /\ findKey(endpoint.doc, tok[c].kid)[1].mat = "genuine"
        /\ OtherwiseValid(tok[c], url[c], now)
        /\ pc'[c] = "done")
       => /\ res'[c].valid
          /\ nret'[c] = 2
          /\ jwksCache'.has /\ jwksCache'.data = endpoint.doc]_vars

\* C5: a verification that fails because no key of the retrieved set has the
\* token's kid invalidates the cache and repeats retrieval and verification
\* exactly once; no call retrieves more than twice or invalidates more than
\* once, and it invalidates only after a key-lookup miss.
C5_OneRetryOnKeyMiss ==
  \A c \in Calls :
    /\ nret[c] <= 2 /\ ninv[c] <= 1
    /\ (pc[c] = "done" /\ nret[c] >= 1 /\ KeyNotFound(tok[c], jwks[c]) /\ ~res[c].valid)
         => ninv[c] = 1 /\ nret[c] = 2

\* C6: verifyLicenseToken never raises: every call ends by returning a result.
C6_NeverRaises ==
  \A c \in Calls : pc[c] # "threw"

\* C7: when the token passed the six checks and the platform key set could
\* not be retrieved (non-2xx or network error, no fresh cache entry) the
\* result is ServerError, and the block response is 503 server_error.
RetrievalFailed(c) == resp[c].status \in {"non2xx", "neterr"}

C7_FetchFailureIsServerError ==
  \A c \in Calls :
    /\ (pc[c] \in {"done", "hdone"} /\ RetrievalFailed(c))
         => res[c] = Invalid(SERVER_ERROR, tok[c].lic)
    /\ (pc[c] = "hdone" /\ req[c].kind = "handle" /\ RetrievalFailed(c))
         => /\ hres[c].action = BLOCK
            /\ hres[c].status = 503
            /\ hres[c].rslError = "server_error"
    /\ (pc[c] \in {"done", "hdone"} /\ res[c].reason = SERVER_ERROR)
         => RetrievalFailed(c) /\ FirstFailure(tok[c], url[c]) = 0

\* a request whose token passed the checks was blocked after a failed fetch
C7_Witness ==
  \E c \in Calls :
    /\ pc[c] = "hdone" /\ req[c].kind = "handle"
    /\ resp[c].status = "neterr"
    /\ FirstFailure(tok[c], url[c]) = 0
    /\ nnet[c] = 1
    /\ hres[c].status = 503

\* C8: a returned result is either valid with a payload and no reason, or
\* invalid with one of the nine reasons and no payload; a valid result is
\* returned only after the signature was verified with a key of the set.
C8_ResultShape ==
  \A c \in Calls :
    pc[c] = "done" =>
      \/ /\ res[c].valid /\ res[c].hasPayload /\ res[c].reason = NoReason
         /\ nret[c] >= 1
         /\ HasKey(tok[c], jwks[c])
         /\ tok[c].sig = "genuine"
         /\ findKey(jwks[c], tok[c].kid)[1].mat = "genuine"
      \/ /\ ~res[c].valid /\ ~res[c].hasPayload
         /\ res[c].reason \in LicenseTokenInvalidReason

\* a call ended valid with a key set it had fetched over the network
C8_Witness ==
  \E c \in Calls :
    /\ pc[c] = "done"
    /\ res[c].valid /\ res[c].hasPayload
    /\ nnet[c] = 1 /\ HasKey(tok[c], jwks[c])

\* C9: a retrieval made less than TTL after the entry was stored returns the
\* stored key set without a fetch and leaves the entry alone; a retrieval made
\* TTL or more after it (or with no entry) fetches, and a fetched key set
\* replaces the entry whole, with the time of its arrival.
C9_CacheTtl ==
  [][\A c \in Calls :
       /\ (pc[c] = "checks" /\ pc'[c] \in {"verify", "fetching"})
            => IF jwksCache.has /\ now - jwksCache.cachedAt < JWKS_CACHE_TTL_MS
               THEN /\ pc'[c] = "verify"
                    /\ jwks'[c] = jwksCache.data
                    /\ nnet'[c] = nnet[c]
                    /\ jwksCache' = jwksCache
               ELSE /\ pc'[c] = "fetching"
                    /\ nnet'[c] = nnet[c] + 1
       /\ (pc[c] = "responded" /\ pc'[c] = "verify")
            => /\ jwksCache' = [has |-> TRUE, data |-> resp[c].doc, cachedAt |-> now]
               /\ jwks'[c] = resp[c].doc]_vars

\* an entry one millisecond short of the TTL was reused without a fetch
C9_Witness ==
  \E c \in Calls :
    /\ pc[c] = "verify" /\ nnet[c] = 0 /\ nret[c] = 1
    /\ jwksCache.has /\ now - jwksCache.cachedAt = JWKS_CACHE_TTL_MS - 1
    /\ jwks[c] = jwksCache.data

\* C10: the fixed table from reason to status and error code; any other
\* reason maps to (401, invalid_token).
TableEntry(reason) ==
  CASE reason \in {MISSING_TOKEN, INVALID_ALG} -> << 401, "invalid_request" >>
    [] reason \in {EXPIRED, SIGNATURE_VERIFICATION_FAILED, INVALID_HEADER,
                   INVALID_PAYLOAD, INVALID_ISSUER} -> << 401, "invalid_token" >>
    [] reason = INVALID_AUDIENCE -> << 403, "insufficient_scope" >>
    [] reason = SERVER_ERROR -> << 503, "server_error" >>
    [] OTHER -> << 401, "invalid_token" >>

C10_BlockTable ==
  \A c \in Calls :
    /\ (pc[c] = "hdone" /\ req[c].kind = "build")
         => /\ hres[c].action = BLOCK
            /\ << hres[c].status, hres[c].rslError >> = TableEntry(req[c].reason)
    /\ (pc[c] = "hdone" /\ req[c].kind = "handle" /\ hres[c].action = BLOCK)
         => << hres[c].status, hres[c].rslError >>
              = TableEntry(IF hasToken(req[c].auth) THEN res[c].reason ELSE MISSING_TOKEN)

\* buildBlockResult was called with a wrong audience and with an unknown reason
C10_Witness ==
  \E c \in Calls :
    /\ pc[c] = "hdone" /\ req[c].kind = "build"
    /\ \/ req[c].reason = INVALID_AUDIENCE /\ hres[c].status = 403
       \/ req[c].reason = "revoked" /\ hres[c].status = 401

\* str is the first characters of whole
IsPrefix(str, whole) == \E k \in 0..Len(whole) : SubSeq(whole, 1, k) = str

\* the call has gone past the first four checks
PastPayload(c) ==
  /\ pc[c] \notin {"idle", "checks"}
  /\ ~tok[c].empty /\ tok[c].hdr = "ok" /\ tok[c].alg = ES256 /\ tok[c].pl = "ok"

\* the issuer check let the call through to the audience check
IssuerPassed(c) ==
  /\ pc[c] # "threw"
  /\ ~(pc[c] = "done" /\ res[c].reason = INVALID_ISSUER)

\* C11: the issuer check passes exactly when iss is present and, with its
\* trailing slashes removed, starts with the base URL with its trailing
\* slashes removed; every other iss (missing, empty, not starting with the
\* prefix) makes the call return InvalidIssuer.
C11_IssuerPrefix ==
  \A c \in Calls :
    PastPayload(c) =>
      IF /\ tok[c].iss.t = "str"
         /\ DropTrailingSlashes(tok[c].iss.s) # <<>>
         /\ IsPrefix(DropTrailingSlashes(baseUrl), DropTrailingSlashes(tok[c].iss.s))
      THEN IssuerPassed(c)
      ELSE pc[c] = "done" /\ res[c] = Invalid(INVALID_ISSUER, tok[c].lic)

\* the string entries of an aud claim
Candidates(aud) ==
  CASE aud.t = "str" -> { aud.s }
    [] aud.t = "list" -> { aud.l[i].s : i \in { j \in DOMAIN aud.l : aud.l[j].t = "str" } }
    [] OTHER -> {}

\* the audience check let the call through to key-set retrieval
AudiencePassed(c) == nret[c] >= 1

\* C12 as stated: the audience check passes exactly when a string entry of
\* aud, with its trailing slashes removed, is a non-empty prefix of the
\* request URL with its trailing slashes removed; otherwise InvalidAudience.
C12_AudienceSlashTrimmed ==
  \A c \in Calls :
    (PastPayload(c) /\ IssuerPassed(c)) =>
      IF \E a \in Candidates(tok[c].aud) :
           /\ DropTrailingSlashes(a) # <<>>
           /\ IsPrefix(DropTrailingSlashes(a), DropTrailingSlashes(url[c]))
      THEN AudiencePassed(c)
      ELSE pc[c] = "done" /\ res[c] = Invalid(INVALID_AUDIENCE, tok[c].lic)

\* C12, amended: the audience check passes exactly when a string entry of
\* aud, with surrounding whitespace and then trailing slashes removed, is a
\* non-empty prefix of the request URL normalized the same way; a missing
\* aud, an aud of another type, an empty list, a list without strings and an
\* entry that normalizes to the empty string never match, and the call
\* returns InvalidAudience.
C12_AudiencePrefix ==
  \A c \in Calls :
    (PastPayload(c) /\ IssuerPassed(c)) =>
      IF \E a \in Candidates(tok[c].aud) :
           /\ DropTrailingSlashes(trim(a)) # <<>>
           /\ IsPrefix(DropTrailingSlashes(trim(a)), DropTrailingSlashes(trim(url[c])))
      THEN AudiencePassed(c)
      ELSE pc[c] = "done" /\ res[c] = Invalid(INVALID_AUDIENCE, tok[c].lic)

\* a list with a non-string entry and a slash-terminated string entry matched
\* a request URL that itself ends in a slash
C12_Witness ==
  \E c \in Calls :
    /\ PastPayload(c) /\ AudiencePassed(c)
    /\ tok[c].aud = List(<< Str(<<"o">>), Str(<<"u", "/">>) >>)
    /\ url[c] = <<"u", "/", "a", "/">>

\* call c verifies, in this step, a token that passed the six checks and is
\* signed by a key of the key set in hand
VerifiesSigned(c) ==
  /\ pc[c] = "verify" /\ pc'[c] = "done"
  /\ HasKey(tok[c], jwks[c])
  /\ tok[c].sig = "genuine" /\ findKey(jwks[c], tok[c].kid)[1].mat = "genuine"

\* the time by which the token's exp lies in the past: whole seconds, and
\* the milliseconds beyond them
ExpiredForSec(c) == (now \div 1000) - tok[c].exp.v
ExpiredForFraction == now % 1000

\* C13 as stated: such a token is classified Expired when its exp is more
\* than 60 seconds in the past, and is not rejected for expiry when its exp is
\* at most 60 seconds in the past.
C13_ExpiredAfterSixty ==
  [][\A c \in Calls :
       (VerifiesSigned(c) /\ tok[c].exp.t = "num") =>
         IF ExpiredForSec(c) > 60 \/ (ExpiredForSec(c) = 60 /\ ExpiredForFraction > 0)
         THEN res'[c] = Invalid(EXPIRED, tok[c].lic)
         ELSE res'[c].reason # EXPIRED]_vars

\* C13, amended: such a token is classified Expired, not
\* SignatureVerificationFailed, when its exp is 60 seconds or more in the
\* past, and is accepted when its exp is less than 60 seconds in the past or
\* absent.
C13_ExpiredClassification ==
  [][\A c \in Calls :
       VerifiesSigned(c) =>
         IF tok[c].exp.t = "num" /\ ExpiredForSec(c) >= 60
         THEN res'[c] = Invalid(EXPIRED, tok[c].lic)
         ELSE res'[c] = Valid(tok[c].lic)]_vars

\* a correctly signed token was classified Expired exactly 60 seconds after
\* its exp
C13_Witness ==
  \E c \in Calls :
    /\ pc[c] = "done" /\ res[c].reason = EXPIRED
    /\ tok[c].sig = "genuine" /\ HasKey(tok[c], jwks[c])
    /\ ticks = 0 /\ ExpiredForSec(c) = 60 /\ ExpiredForFraction = 0

\* request c is being handled by handleRequest
Handling(c) == req[c].kind = "handle" /\ pc[c] # "idle"

\* nothing of verifyLicenseToken has run for request c, no key set was
\* fetched and no event was issued
NoVerification(c) ==
  /\ tok[c] = EmptyToken /\ res[c] = NoResult /\ jwks[c] = NoDoc
  /\ nret[c] = 0 /\ nnet[c] = 0 /\ resp[c] = NoResp
  /\ event[c] = NoEvent

\* { action: ALLOW } without headers
PlainAllow(c) == pc[c] = "hdone" /\ hres[c].action = ALLOW /\ hres[c].headers = {}

C15_HumanWithoutToken ==
  \A c \in Calls :
    (Handling(c) /\ ~hasToken(req[c].auth) /\ req[c].det \in {"none", "human"})
      => PlainAllow(c) /\ NoVerification(c)

\* under Strict enforcement, with no detector configured, a request whose
\* Authorization header uses another scheme was allowed
C15_Witness ==
  \E c \in Calls :
    /\ Handling(c) /\ req[c].mode = STRICT /\ req[c].det = "none"
    /\ req[c].auth.has /\ req[c].auth.scheme = BearerPrefix
    /\ hres[c].action = ALLOW

\* C16: a request without a token that the bot detector flags is, under
\* Strict enforcement, blocked with status 401, error code invalid_request
\* (MissingToken), a WWW-Authenticate header and a Link header.
C16_StrictBlocksBot ==
  \A c \in Calls :
    (Handling(c) /\ ~hasToken(req[c].auth) /\ req[c].det = "bot" /\ req[c].mode = STRICT)
      => /\ pc[c] = "hdone"
         /\ hres[c].action = BLOCK
         /\ hres[c].status = 401
         /\ hres[c].rslError = "invalid_request"
         /\ \E h \in hres[c].headers :
              h.name = "WWW-Authenticate" /\ h.text = "License" /\ h.error = "invalid_request"
         /\ \E h \in hres[c].headers : h.name = "Link"
         /\ botAsked[c]
         /\ NoVerification(c)

\* a bot request without any Authorization header was blocked
C16_Witness ==
  \E c \in Calls :
    /\ Handling(c) /\ req[c].mode = STRICT /\ req[c].det = "bot"
    /\ ~req[c].auth.has
    /\ hres[c].status = 401

\* scheme and host of the request URLs
SchemeAndHost(requestUrl) == IF requestUrl = UrlArticle THEN <<"u">> ELSE <<"o">>

\* C17: a request without a token that the bot detector flags is, under Soft
\* enforcement (also the mode when no enforcement is configured), allowed
\* and never blocked, and the result carries exactly X-RSL-Status:
\* token_required, X-RSL-Reason: missing and a Link to /license.xml on the
\* scheme and host of the request.
C17_SoftSignals ==
  \A c \in Calls :
    (/\ Handling(c) /\ ~hasToken(req[c].auth) /\ req[c].det = "bot"
     /\ req[c].config \in {SOFT, Unconfigured})
      => /\ pc[c] = "hdone"
         /\ hres[c].action = ALLOW
         /\ hres[c].headers =
              { [name |-> "X-RSL-Status", text |-> "token_required", error |-> "",
                 desc |-> "", origin |-> <<>>],
                [name |-> "X-RSL-Reason", text |-> "missing", error |-> "",
                 desc |-> "", origin |-> <<>>],
                [name |-> "Link", text |-> "/license.xml; rel=license; type=application/rsl+xml",
                 error |-> "", desc |-> "", origin |-> SchemeAndHost(req[c].rurl)] }
         /\ NoVerification(c)

\* with no enforcement configured, a bot request without a token was allowed
\* with the three headers
C17_Witness ==
  \E c \in Calls :
    /\ Handling(c) /\ req[c].config = Unconfigured /\ req[c].det = "bot"
    /\ ~hasToken(req[c].auth)
    /\ hres[c].action = ALLOW /\ Cardinality(hres[c].headers) = 3

\* C18: under Soft enforcement a bot request without a token, sent through
\* any of the CDN adapters, is forwarded to the origin and what the client
\* gets carries the advisory headers of the Allow result; no adapter drops
\* the headers of an Allow result.
C18_AdaptersKeepHeaders ==
  \A c \in Calls :
    (pc[c] = "delivered" /\ hres[c].action = ALLOW)
      => /\ client[c].forwarded
         /\ hres[c].headers \subseteq client[c].headers
         /\ (req[c].mode = SOFT /\ req[c].det = "bot" /\ ~hasToken(req[c].auth))
              => /\ \E h \in client[c].headers :
                      h.name = "X-RSL-Status" /\ h.text = "token_required"
                 /\ \E h \in client[c].headers : h.name = "Link"

\* the verification of request c has not completed
Verifying(c) == pc[c] \in {"checks", "fetching", "responded", "verify", "done"}

\* C19: on the token-present path the analytics event is issued only after
\* verification has completed, and reflects its outcome: name license_used
\* and status valid exactly when the result is valid, else the failure reason
\* as name and status invalid; it carries the license id taken from the
\* token.
C19_EventReflectsOutcome ==
  \A c \in Calls :
    /\ Verifying(c) => event[c] = NoEvent /\ dispatch[c] = NoDispatch
    /\ (Handling(c) /\ pc[c] = "hdone" /\ hasToken(req[c].auth) /\ req[c].mode # DISABLED)
         => /\ event[c] # NoEvent
            /\ dispatch[c].state # "none"
    /\ event[c] # NoEvent
         => /\ res[c] # NoResult
            /\ event[c].name = "license_used" <=> res[c].valid
            /\ event[c].status = "valid" <=> res[c].valid
            /\ ~res[c].valid =>
                 /\ event[c].name = res[c].reason
                 /\ event[c].status = "invalid"
                 /\ event[c].reason = res[c].reason
            /\ event[c].licenseId = res[c].licenseId
            /\ FirstFailure(tok[c], url[c]) \notin 1..4 => event[c].licenseId = tok[c].lic

\* a request with a wrong audience led to an event named after that reason,
\* carrying the token's license id
C19_Witness ==
  \E c \in Calls :
    /\ pc[c] = "hdone" /\ res[c].reason = INVALID_AUDIENCE
    /\ event[c].name = INVALID_AUDIENCE /\ event[c].status = "invalid"
    /\ event[c].licenseId = Str(<<"L">>)

\* C20: the analytics call is handed to the context's waitUntil when the
\* context has one, and the result is returned without waiting for it; with
\* no such context the call is awaited, so that it has completed when the
\* handler result is returned.
C20_EventAwaitedWithoutContext ==
  \A c \in Calls :
    (pc[c] = "hdone" /\ dispatch[c].state # "none")
      => IF dispatch[c].ctx = "waitUntil"
         THEN dispatch[c].handed
         ELSE ~dispatch[c].handed /\ dispatch[c].state = "completed"

\* C21: a failure of the analytics POST (non-2xx or network exception) is
\* never surfaced: the promise of recordEvent is fulfilled however the POST
\* ends, and the Allow/Block result of the request is the same whether the
\* POST succeeds, fails or throws.
C21_EventFailureNotSurfaced ==
  [][\A c \in Calls :
       /\ (dispatch[c].state = "pending" /\ dispatch'[c].state = "completed")
            => /\ dispatch'[c].post \in PostOutcomes
               /\ dispatch'[c].settled = "fulfilled"
               /\ hres'[c] = hres[c] /\ res'[c] = res[c] /\ pc'[c] = pc[c]
       /\ (dispatch'[c].state = "completed" /\ pc'[c] \in {"hdone", "delivered"})
            => /\ hres'[c].action = IF res'[c].valid THEN ALLOW ELSE BLOCK
               /\ ~res'[c].valid =>
                    << hres'[c].status, hres'[c].rslError >> = TableEntry(res'[c].reason)]_vars

\* the POST for a blocked request ended in a network error
C21_Witness ==
  \E c \in Calls :
    /\ dispatch[c].state = "completed" /\ dispatch[c].post = "neterr"
    /\ hres[c].action = BLOCK /\ pc[c] = "hdone"

\* the reasons of the steps that come before the payload's license_id is read
EarlyReasons == { MISSING_TOKEN, INVALID_HEADER, INVALID_ALG, INVALID_PAYLOAD }

\* C22: the license_id claim of the decoded payload is attached to every
\* verification result produced at or after the issuer check (invalid issuer,
\* invalid audience, server error, expired, signature verification failed
\* and success); the results of the earlier steps (missing token, invalid
\* header, invalid algorithm, invalid payload) carry no license id.
C22_LicenseIdAttached ==
  \A c \in Calls :
    res[c] # NoResult =>
      IF res[c].reason \in EarlyReasons
      THEN res[c].licenseId = Undef
      ELSE /\ res[c].reason \in
                { NoReason, INVALID_ISSUER, INVALID_AUDIENCE, SERVER_ERROR, EXPIRED,
                  SIGNATURE_VERIFICATION_FAILED }
           /\ res[c].licenseId = tok[c].lic

\* the key-set retrieval failed for a token with a license id
C22_Witness ==
  \E c \in Calls :
    /\ res[c].reason = SERVER_ERROR /\ res[c].licenseId = Str(<<"L">>)
    /\ tok[c].lic = Str(<<"L">>)

\* a JSON value that is a non-empty string
NonEmptyString(v) == v.t = "str" /\ v.s # <<>>

\* C23: every invalid verification result carries, next to its reason, a
\* non-empty human-readable description (the member error), and the static
\* verify returns that description as error whenever valid is false.
C23_DescriptionAttached ==
  \A c \in Calls :
    /\ (res[c] # NoResult /\ ~res[c].valid) => NonEmptyString(res[c].error)
    /\ (out[c].returned /\ ~out[c].valid) =>
         out[c].error = res[c].error /\ NonEmptyString(out[c].error)

RECURSIVE BackslashesBefore(_, _)
\* the number of backslashes that directly precede position i of value
BackslashesBefore(value, i) ==
  IF i > 1 /\ value[i - 1] = "\\" THEN 1 + BackslashesBefore(value, i - 1) ELSE 0

\* the positions of the double quotes of value that no backslash escapes
UnescapedQuotes(value) ==
  { i \in 1..Len(value) : value[i] = "\"" /\ BackslashesBefore(value, i) % 2 = 0 }

\* C24: for every failure reason and every description passed to
\* buildBlockResult, also one with carriage returns, line feeds, double
\* quotes or backslashes, the value of the WWW-Authenticate header has no CR
\* and no LF, and its only unescaped double quotes are the four that delimit
\* the error code and the description, the last of them closing the value:
\* the description can neither end the quoted string nor start a header.
C24_ChallengeNotInjectable ==
  \A c \in Calls :
    hres[c].action = BLOCK =>
      LET value == hres[c].challenge
      IN /\ value # <<>>
         /\ \A i \in 1..Len(value) : value[i] \notin { CR, LF }
         /\ Cardinality(UnescapedQuotes(value)) = 4
         /\ Len(value) \in UnescapedQuotes(value)
         /\ IsPrefix(Chars("License error=\"") \o Chars(hres[c].rslError)
                       \o Chars("\", error_description=\""), value)

\* buildBlockResult was called with a description that holds a line break
\* and with one that holds a double quote
C24_Witness ==
  \E c \in Calls :
    /\ req[c].kind = "build" /\ hres[c].action = BLOCK
    /\ req[c].error.t = "str"
    /\ \E i \in 1..Len(req[c].error.s) : req[c].error.s[i] \in { CR, LF, "\"" }

\* C25: every Block result, for every failure reason and for reasons outside
\* the enumeration, has exactly the headers Content-Type: text/plain;
\* charset=UTF-8, a WWW-Authenticate License challenge with the error code
\* of the body, and a Link with rel="license" to /license.xml under the
\* scheme and host of the request.
C25_BlockHeaders ==
  \A c \in Calls :
    hres[c].action = BLOCK =>
      /\ hres[c].rslError \in
           { "invalid_request", "invalid_token", "insufficient_scope", "server_error" }
      /\ hres[c].headers =
           { [name |-> "Content-Type", text |-> "text/plain; charset=UTF-8", error |-> "",
              desc |-> "", origin |-> <<>>],
             [name |-> "WWW-Authenticate", text |-> "License", error |-> hres[c].rslError,
              desc |-> hres[c].errorDescription, origin |-> <<>>],
             [name |-> "Link", text |-> "/license.xml; rel=license; type=application/rsl+xml",
              error |-> "", desc |-> "", origin |-> SchemeAndHost(req[c].rurl)] }

\* a block built for a reason outside the enumeration
C25_Witness ==
  \E c \in Calls :
    /\ req[c].kind = "build" /\ req[c].reason \notin LicenseTokenInvalidReason
    /\ hres[c].action = BLOCK /\ req[c].rurl = UrlOther

\* call c takes a step in which it retrieves the key set
Retrieves(c) == pc[c] = "checks" /\ nret'[c] = nret[c] + 1

\* call c takes the step that deals with the response to its fetch
Settles(c) == pc[c] = "responded" /\ pc'[c] # pc[c]

\* C26: a failed key-set fetch (network error or non-2xx response) reaches
\* the caller, which reports a server error, and caches nothing: the cache
\* after the failed call equals the cache before it, it is as little fresh
\* as before, only a successful fetch makes it fresh, and a retrieval that
\* finds no fresh entry fetches again.
C26_FailedFetchCachesNothing ==
  [][/\ \A c \in Calls :
          /\ (Settles(c) /\ resp[c].status # "ok") =>
               /\ jwksCache' = jwksCache
               /\ ~CacheFresh(jwksCache', now')
               /\ pc'[c] = "done" /\ res'[c] = Invalid(SERVER_ERROR, tok[c].lic)
          /\ (Retrieves(c) /\ ~CacheFresh(jwksCache, now)) =>
               pc'[c] = "fetching" /\ nnet'[c] = nnet[c] + 1
     /\ (CacheFresh(jwksCache', now') /\ ~CacheFresh(jwksCache, now)) =>
          \E c \in Calls : Settles(c) /\ resp[c].status = "ok"]_vars

\* a fetch failed while the cache held an entry past its TTL, and the entry
\* is still there
C26_Witness ==
  \E c \in Calls :
    /\ pc[c] = "done" /\ res[c].reason = SERVER_ERROR /\ nnet[c] = 1
    /\ jwksCache.has /\ ~CacheFresh(jwksCache, now)

\* C27: clearJwksCache removes every entry, whatever its age: after it the
\* cache is empty, and the next key-set retrieval fetches even if the entry
\* that was removed was still within its TTL.
C27_ClearRemovesAll ==
  [][/\ (removed' # removed /\ removed'.has) =>
          /\ removed' = jwksCache
          /\ jwksCache' = EmptyCache
     /\ \A c \in Calls :
          (Retrieves(c) /\ removed.has) =>
            /\ ~jwksCache.has
            /\ pc'[c] = "fetching" /\ nnet'[c] = nnet[c] + 1]_vars

\* an entry within its TTL was removed and a call is about to retrieve the
\* key set
C27_Witness ==
  \E c \in Calls :
    /\ removed.has /\ CacheFresh(removed, now)
    /\ ~jwksCache.has
    /\ pc[c] = "checks" /\ tok[c] = GoodToken /\ url[c] = UrlArticle

\* C28: verifications that run at once against a cold cache each issue
\* their own fetch; in every interleaving a call verifies against the whole
\* document its own fetch returned, the cache only ever changes to an entry
\* holding the whole document of the fetch that completes, and so holds
\* the document of one of the fetches once all have completed.
C28_ConcurrentFetches ==
  [][/\ \A c \in Calls :
          /\ (Retrieves(c) /\ ~CacheFresh(jwksCache, now)) =>
               pc'[c] = "fetching" /\ nnet'[c] = nnet[c] + 1
          /\ (Settles(c) /\ resp[c].status = "ok") =>
               /\ resp[c].doc \in Docs
               /\ jwks'[c] = resp[c].doc
               /\ jwksCache' = [has |-> TRUE, data |-> resp[c].doc, cachedAt |-> now]
          /\ (pc[c] = "verify" /\ pc'[c] = "done") =>
               /\ nnet[c] = 1 => jwks[c] = resp[c].doc
               /\ res'[c] = verifyWithKeys(tok[c], jwks[c], now)
     /\ jwksCache' # jwksCache =>
          \E c \in Calls : Settles(c) /\ resp[c].status = "ok"
     /\ jwksCache.has => jwksCache.data \in Docs]_vars

\* two calls fetched at once and got different documents; each holds its
\* own, and the cache holds the one that completed last
C28_Witness ==
  /\ \A c \in Calls : pc[c] = "verify" /\ nnet[c] = 1 /\ jwks[c] = resp[c].doc
  /\ jwks[1] # jwks[2]
  /\ jwksCache.has /\ jwksCache.data = jwks[2]

\* the supplied config asks for the instance that is registered
SameConfig(config, registered) == instanceOf(config) = registered

\* C29: after any sequence of constructor and resetInstance calls, a
\* constructor call with reset = false while an instance is registered
\* returns that instance when the supplied config is the same and throws
\* when the config differs in any parameter (apiKey, enforcement,
\* botDetector or debug); with reset = true a valid config always replaces
\* the registered instance.
C29_ConstructorContract ==
  made.outcome # "none" =>
    /\ (~made.reset /\ made.before.registered) =>
         IF SameConfig(made.config, made.before)
         THEN made.outcome = "returned" /\ made.object = made.before
              /\ made.after = made.before
         ELSE made.outcome \in {"threw different", "threw missing"}
              /\ made.after = made.before
    /\ (made.reset /\ made.config.apiKey # "") =>
         made.outcome = "created" /\ made.after = instanceOf(made.config)
              /\ made.object = made.after

\* C30: the static verify is pure with respect to analytics and instance
\* state: its steps record no event, need no constructed instance and leave
\* the registered singleton and the static base URL unchanged; it verifies
\* against options.baseUrl when given and the static base URL otherwise, and
\* it returns valid = true exactly when verifyLicenseToken returns a valid
\* result for that token, resource URL and base URL.
C30_VerifyIsPure ==
  [][\A c \in Calls :
       ((req[c].kind = "static" \/ req'[c].kind = "static") /\ pc'[c] # pc[c]) =>
         /\ instance' = instance /\ made' = made /\ baseUrl' = baseUrl
         /\ event'[c] = NoEvent /\ dispatch'[c] = NoDispatch
         /\ pc[c] = "idle" =>
              req'[c].base = IF req'[c].opt.t = "undef" THEN baseUrl ELSE req'[c].opt.s
         /\ (pc[c] = "checks" /\ pc'[c] = "done") =>
              res'[c] = PreChecks(tok[c], url[c], req[c].base).result
         /\ pc'[c] = "vdone" =>
              /\ res'[c] = res[c]
              /\ out'[c].returned /\ out'[c].valid = res[c].valid]_vars

\* with no instance registered, a token is found valid against a base URL
\* given in the options that differs from the static one
C30_Witness ==
  \E c \in Calls :
    /\ req[c].kind = "static" /\ pc[c] = "vdone" /\ out[c].valid
    /\ ~instance.registered
    /\ req[c].opt.t = "str" /\ req[c].opt.s # baseUrl

\* the blocks of the call whose pattern parses and whose host is the
\* resource's
Considered ==
  { i \in 1..Len(content.blocks) :
      content.blocks[i].parses /\ content.blocks[i].host = content.resource.host }
ExactMatches == { i \in Considered : content.blocks[i].path = content.resource.path }
WildcardMatches ==
  { i \in Considered :
      /\ endsWithWildcard(content.blocks[i].path)
      /\ IsPrefix(wildcardPrefix(content.blocks[i].path), content.resource.path) }
PrefixLength(i) == Len(content.blocks[i].path) - 1

\* C31: findBestMatchingContent considers only blocks whose pattern parses
\* and whose host is the resource's host; it returns a block whose pattern
\* path equals the resource path if there is one, otherwise the wildcard
\* block with the longest prefix that the resource path starts with, the
\* earliest in the list on ties, and null exactly when there is no such block.
C31_BestMatch ==
  content.called =>
    LET r == content.result
    IN /\ r \in {0} \cup Considered
       /\ IF ExactMatches # {} THEN r \in ExactMatches
          ELSE IF WildcardMatches # {}
          THEN /\ r \in WildcardMatches
               /\ \A j \in WildcardMatches :
                    \/ PrefixLength(j) < PrefixLength(r)
                    \/ PrefixLength(j) = PrefixLength(r) /\ r <= j
          ELSE r = 0
       /\ r = 0 <=> (ExactMatches = {} /\ WildcardMatches = {})

\* a shorter wildcard comes first, the longest one appears twice, a block of
\* another host and an unparsable one are in the list, and no path is equal
C31_Witness ==
  /\ content.called /\ ExactMatches = {}
  /\ content.result = 2
  /\ 1 \in WildcardMatches /\ 3 \in WildcardMatches
  /\ PrefixLength(1) < PrefixLength(2) /\ PrefixLength(3) = PrefixLength(2)

\* the Authorization header is the literal "License " and a non-empty rest
CarriesToken(auth) == auth.has /\ auth.scheme = LicensePrefix /\ ~auth.cred.empty

\* what handleRequest answers to a request without a token
NoTokenOutcome(r) ==
  IF r.det # "bot" THEN AllowResult
  ELSE IF r.mode = STRICT THEN buildBlockResult(MISSING_TOKEN, MissingTokenError, r.rurl)
  ELSE IF r.mode = SOFT THEN buildSignalResult(r.rurl)
  ELSE AllowResult

\* C32: handleRequest treats a request as carrying a token exactly when its
\* Authorization header is the literal "License " followed by a non-empty
\* remainder, and that remainder is the token it verifies; with no header,
\* another scheme, or "License " and nothing after it, the request takes the
\* no-token path: the bot detector and the enforcement mode decide.
C32_TokenExtraction ==
  [][\A c \in Calls :
       (pc[c] = "idle" /\ pc'[c] # "idle" /\ req'[c].kind = "handle") =>
         LET r == req'[c]
         IN IF CarriesToken(r.auth)
            THEN /\ botAsked'[c] = botAsked[c]
                 /\ IF r.mode = DISABLED
                    THEN pc'[c] = "hdone" /\ hres'[c] = AllowResult
                    ELSE pc'[c] = "checks" /\ tok'[c] = r.auth.cred /\ ~tok'[c].empty
            ELSE /\ pc'[c] = "hdone"
                 /\ tok'[c] = tok[c]
                 /\ botAsked'[c] = (r.det # "none")
                 /\ hres'[c] = NoTokenOutcome(r)]_vars

\* "License " with nothing after it, from a bot under strict enforcement: the
\* request is answered as one without a token
C32_Witness ==
  /\ req[1].kind = "handle"
  /\ req[1].auth = Auth(LicensePrefix, EmptyToken)
  /\ req[1].det = "bot" /\ req[1].mode = STRICT
  /\ pc[1] = "hdone" /\ botAsked[1]
  /\ hres[1] = buildBlockResult(MISSING_TOKEN, MissingTokenError, req[1].rurl)

\* C33: through the Cloudflare, Fastly and CloudFront entry points under
\* Strict or Soft enforcement, a request with a License token is forwarded
\* to the origin only if verification returned valid; no exception raised
\* while the instance is constructed or the request handled lets such a
\* request reach the origin unverified.
C33_ForwardedOnlyIfValid ==
  \A c \in Calls :
    ( /\ req[c].kind = "handle" /\ pc[c] = "delivered"
      /\ CarriesToken(req[c].auth)
      /\ req[c].mode \in { STRICT, SOFT }
      /\ client[c].forwarded )
    => (res[c] # NoResult /\ res[c].valid)

\* C34: for any sequence of setBaseUrl calls and verifications, the static
\* verify with a baseUrl option included, the key set used to verify a token
\* against a base URL was fetched from that base URL's endpoint; a key set
\* fetched from one base URL is never used for another.
C34_KeySetOfOwnBaseUrl ==
  [][\A c \in Calls :
       (pc[c] = "checks" /\ pc'[c] = "verify") =>
         (jwks'[c] = jwksCache.data /\ cachedFrom = req[c].base)]_vars

\* the exp claim of the token call c verifies lies more than the clock
\* tolerance in the past
ExpirationViolated(c) ==
  tok[c].exp.t = "num" /\ tok[c].exp.v <= (now \div 1000) - ClockToleranceSec

\* C35: verifyLicenseToken returns Expired only when the failure is a
\* violation of the expiration claim; every other cause, among them the key
\* set holding no key with the token's kid, whatever that kid is, and a bad
\* signature, gives SignatureVerificationFailed.
C35_ExpiredOnlyForExpiry ==
  [][\A c \in Calls :
       (pc[c] = "verify" /\ pc'[c] = "done") =>
         /\ res'[c].reason = EXPIRED =>
              (ExpirationViolated(c) /\ findKey(jwks[c], tok[c].kid) # <<>>)
         /\ (~res'[c].valid /\ ~ExpirationViolated(c)) =>
              res'[c].reason = SIGNATURE_VERIFICATION_FAILED
         /\ findKey(jwks[c], tok[c].kid) = <<>> =>
              res'[c].reason = SIGNATURE_VERIFICATION_FAILED]_vars

\* call d has completed a fetch of its own with a key set
Fetched(d) ==
  pc[d] \in {"verify", "done"} /\ nnet[d] > 0 /\ resp[d].status = "ok"

\* C36: the cached key set is never replaced by an older one: of two fetches
\* in flight at once, the cache holds after both have completed, in either
\* order, the key set of the fetch that was served later; and the timestamp
\* of an entry is never later than the time its data was served.
C36_NeverReplacedByOlder ==
  [][\A c \in Calls :
       (Settles(c) /\ resp[c].status = "ok") =>
         /\ jwksCache'.cachedAt <= served[c].at
         /\ \A d \in Calls \ {c} :
              Fetched(d) =>
                jwksCache'.data =
                  IF served[d].after = c THEN resp[d].doc ELSE resp[c].doc]_vars

\* the last constructor call threw
Threw == made.outcome \in { "threw different", "threw missing" }

\* C37: a constructor call that throws leaves the registered singleton
\* exactly as it was before the call, for every combination of config and
\* reset, reset = true with a missing apiKey while an instance is registered
\* included; and a registered instance always has a non-empty apiKey.
C37_ThrowLeavesSingleton ==
  /\ Threw => made.after = made.before
  /\ instance.registered => instance.apiKey # ""

\* handleRequest has issued an analytics event for the request of call c
EventIssued(c) == dispatch[c].state # "none"

\* C38: handleRequest issues at most one analytics event per request, and
\* exactly one if and only if the request carries a non-empty License token
\* and the enforcement mode is not Disabled; every outcome without a token,
\* the MissingToken block under Strict and the signal under Soft included,
\* records no event.
C38_OneEventPerTokenRequest ==
  \A c \in Calls :
    (req[c].kind = "handle" /\ pc[c] \in { "hdone", "hthrew" }) =>
      /\ EventIssued(c) <=> (CarriesToken(req[c].auth) /\ req[c].mode # DISABLED)
      /\ EventIssued(c) <=> event[c] # NoEvent
      /\ ~CarriesToken(req[c].auth) => (event[c] = NoEvent /\ dispatch[c] = NoDispatch)

====
